---- MODULE Spec2Model ----
(***************************************************************************)
(* Model of the sdlc-engine workflow state machine:                        *)
(*   StateMachine   (src/unnamed/part_000)                                 *)
(*   PhaseExecutor  (src/packages/sdlc-engine/tests/unit/                  *)
(*                   StateMachine.test.ts, lines 294-550)                  *)
(*   TaskExecutor   (src/unnamed/part_001), here through its outcome, and  *)
(*                  its approval and validation rules (SpecTask)           *)
(*   InMemoryPersistence, from its contract (SpecPersistence)              *)
(* One workflow instance is driven by asynchronous call chains.  A step of *)
(* a chain is the code between two awaits, so the steps of concurrent      *)
(* chains interleave exactly where the JavaScript event loop lets them.    *)
(***************************************************************************)
EXTENDS Integers, Sequences, FiniteSets, TLC

VARIABLES
    def,        \* the workflow definition served by the phase manager
    config,     \* IStateMachineConfig
    outcomes,   \* the outcomes TaskExecutor.executeTask has had, per phase and task id
    initialData,\* metadata handed to startWorkflow
    inst,       \* StateMachine.instances: NoInst or the one instance
    store,      \* the persistence snapshot of the instance
    chains,     \* the asynchronous call chains, in order of creation
    last,       \* the last public call and its synchronous outcome
    peCalls,    \* PhaseExecutor.executePhase invocations per phase
    heap        \* the objects the persistence component and its callers hold by
                \* reference, where references matter (SpecPersistence)

vars == <<def, config, outcomes, initialData, inst, store, chains, last, peCalls, heap>>

----------------------------------------------------------------------------
\* Bounds of the model

MaxPhases == 3
MaxTasks == 3
MaxRetriesCfg == 1
MaxChains == 2
RacePhases == 2

----------------------------------------------------------------------------
\* Values

NoErr == "none"
Absent == "absent"
NoPhase == 0
\* metadata / transition context: undefined, or an object with its flags
NoMeta == [present |-> FALSE, approved |-> FALSE, autoApprove |-> FALSE]
EmptyMeta == [present |-> TRUE, approved |-> FALSE, autoApprove |-> FALSE]
\* the entry of an id in the instance table / in the store: none
NoInst ==
    [exists |-> FALSE, state |-> "idle", cur |-> NoPhase, phaseStates |-> <<>>,
     error |-> NoErr, completedAt |-> FALSE, metadata |-> NoMeta]

WorkflowId == "test-workflow"
InstanceId == "instance-1"

DefaultMaxRetries == 3
DefaultCancelMessage == "Workflow cancelled"
NoReason == "<omitted>"

ErrSched == "Cannot execute remaining tasks due to unsatisfied dependencies"
ErrRequired == "Phase execution failed due to required task failures"
ErrValidation == "Phase completion validation failed"
ErrInvalidPhase == "Invalid phase reference"
ErrNoTransition == "No valid transition found"
ErrTransition == "Transition validation failed"

RECURSIVE SeqToSet(_)
SeqToSet(s) == IF s = <<>> THEN {} ELSE {Head(s)} \cup SeqToSet(Tail(s))

RECURSIVE Filter(_, _)
\* the subsequence of the indexes ix that belong to keep
Filter(ix, keep) ==
    IF ix = <<>> THEN <<>>
    ELSE IF Head(ix) \in keep THEN <<Head(ix)>> \o Filter(Tail(ix), keep)
         ELSE Filter(Tail(ix), keep)

Indexes(n) == [i \in 1..n |-> i]

----------------------------------------------------------------------------
\* The definition provider (IPhaseManager)

PhaseIds == SeqToSet(def.phases)
getPhase(p) == p \in PhaseIds
getAvailableTransitions(p) ==
    Filter(Indexes(Len(def.transitions)),
           {i \in 1..Len(def.transitions) : def.transitions[i].from = p})
Tasks(p) == def.tasks[p]
TaskIdsOf(p) == {Tasks(p)[i].id : i \in 1..Len(Tasks(p))}

----------------------------------------------------------------------------
\* Persistence

updateInstance(i) == IF config.enablePersistence THEN i ELSE store

\* InMemoryPersistence, with the references it and its callers hold.
\* An address names an object; LiveRef is the address of the live instance
\* (inst), the other addresses index heap.objs.
LiveRef == 0
NoRef == -1
\* no object allocated, no entry stored under the instance id, nothing
\* returned to a caller
EmptyHeap == [objs |-> <<>>, entry |-> NoRef, held |-> {}, returned |-> <<>>]

Deref(h, i, a) == IF a = LiveRef THEN i ELSE h.objs[a]

\* an instant (Date) with its milliseconds, its ISO-8601 string, and a date
\* field that is undefined
Date(ms) == [type |-> "Date", ms |-> ms]
IsoString(ms) == [type |-> "ISO-8601", ms |-> ms]
NoDate == [type |-> "undefined", ms |-> 0]

toISOString(d) == IF d.type = "Date" THEN IsoString(d.ms) ELSE d
parseDate(d) == IF d.type = "ISO-8601" THEN Date(d.ms) ELSE d

\* the k-th smallest key of a map
KeyAt(m, k) == CHOOSE x \in DOMAIN m : Cardinality({y \in DOMAIN m : y < x}) = k - 1
\* a map as the ordered list of its key/value pairs, and back
entries(m) == [k \in 1..Cardinality(DOMAIN m) |-> <<KeyAt(m, k), m[KeyAt(m, k)]>>]
fromEntries(e) ==
    [key \in {e[j][1] : j \in 1..Len(e)} |->
        e[CHOOSE j \in 1..Len(e) : e[j][1] = key][2]]

\* the boundary representation of an instance: maps as lists of pairs,
\* instants as ISO-8601 strings
serialize(i) ==
    [i EXCEPT
        !.completedAt = toISOString(@),
        !.phaseStates = entries([p \in DOMAIN @ |->
            [@[p] EXCEPT !.startedAt = toISOString(@),
                         !.taskStates = entries(@)]])]

\* a deserialisation that leaves the instants as the strings they were
\* written as
deserialize_KeepsIsoStrings(r) ==
    [r EXCEPT
        !.phaseStates = LET m == fromEntries(@)
                        IN  [p \in DOMAIN m |->
                                [m[p] EXCEPT !.taskStates = fromEntries(@)]]]

deserialize(r) ==
    [r EXCEPT
        !.completedAt = parseDate(@),
        !.phaseStates = LET m == fromEntries(@)
                        IN  [p \in DOMAIN m |->
                                [m[p] EXCEPT !.startedAt = parseDate(@),
                                             !.taskStates = fromEntries(@)]]]

\* the value-independent copy of an instance
clone(i) == deserialize(serialize(i))

\* the object o is added to the heap: its address is the next index
Alloc(h, o) == [h EXCEPT !.objs = Append(h.objs, o)]
NewRef(h) == Len(h.objs) + 1

\* a save that stores the caller's object itself
saveWorkflowInstance_KeepsReference(h, i, a) == [h EXCEPT !.entry = a]

\* save(instance): the entry of the instance id becomes a copy of the
\* object at address a
saveWorkflowInstance(h, i, a) ==
    [Alloc(h, clone(Deref(h, i, a))) EXCEPT !.entry = NewRef(h)]

\* load(id): a copy of the entry, or none
loadWorkflowInstance(h, i, id) ==
    IF id # InstanceId \/ h.entry = NoRef
    THEN [h EXCEPT !.returned = <<>>]
    ELSE [Alloc(h, clone(Deref(h, i, h.entry))) EXCEPT
            !.held = @ \cup {NewRef(h)}, !.returned = <<NewRef(h)>>]

\* list(filter): copies of the entries the filter lets through; a filter
\* without a state lets every entry through
NoFilter == "<none>"
listWorkflowInstances(h, i, stateFilter) ==
    IF h.entry = NoRef
        \/ (stateFilter # NoFilter /\ Deref(h, i, h.entry).state # stateFilter)
    THEN [h EXCEPT !.returned = <<>>]
    ELSE [Alloc(h, clone(Deref(h, i, h.entry))) EXCEPT
            !.held = @ \cup {NewRef(h)}, !.returned = <<NewRef(h)>>]

\* existing fields overridden by the fields of the partial instance
Merge(existing, partial) ==
    [f \in DOMAIN existing |-> IF f \in DOMAIN partial THEN partial[f] ELSE existing[f]]

\* update(id, partial): the entry becomes a copy of the entry merged with
\* the partial instance; used only where the id has an entry
updateWorkflowInstance(h, i, partial) ==
    [Alloc(h, clone(Merge(Deref(h, i, h.entry), partial))) EXCEPT !.entry = NewRef(h)]

----------------------------------------------------------------------------
\* TransitionValidator

\* metadata?.approved === true || metadata?.autoApprove === true
requestApproval(ctx) == ctx.present /\ (ctx.approved \/ ctx.autoApprove)

validateTransitionConditions(i, from, tr, ctx) ==
    {c \in tr.conditions :
        \/ c = "completed" /\ i.phaseStates[from].state # "completed"
        \/ c = "approved" /\ ~(ctx.present /\ ctx.approved)}

canTransition(i, from, tr, ctx) ==
    /\ from \in DOMAIN i.phaseStates
    /\ i.phaseStates[from].state \in {"active", "completed"}
    /\ validateTransitionConditions(i, from, tr, ctx) = {}
    /\ tr.requiresApproval => requestApproval(ctx)

----------------------------------------------------------------------------
\* PhaseExecutor

\* executePhase, "Initialize task states": a TaskInstance is created only
\* for a task id that has none yet
InitTaskStates(p, ts) ==
    [t \in DOMAIN ts |-> IF t \in TaskIdsOf(p) /\ ts[t] = Absent THEN "pending" ELSE ts[t]]

\* a frontier that does not look at the dependencies
Frontier_IgnoresDependencies(p, ex, fl) ==
    Filter(Indexes(Len(Tasks(p))),
           {i \in 1..Len(Tasks(p)) : Tasks(p)[i].id \notin ex \cup fl})

\* a frontier that takes in again the tasks that have been executed or have
\* failed
Frontier_RunsSettledAgain(p, ex, fl) ==
    Filter(Indexes(Len(Tasks(p))),
           {i \in 1..Len(Tasks(p)) : Tasks(p)[i].deps \subseteq ex})

\* executePhase, tasksToExecute: positions of the tasks neither executed nor
\* failed whose every dependency is in executedTasks
Frontier(p, ex, fl) ==
    Filter(Indexes(Len(Tasks(p))),
           {i \in 1..Len(Tasks(p)) :
                /\ Tasks(p)[i].id \notin ex \cup fl
                /\ Tasks(p)[i].deps \subseteq ex})

PendingTasks(p, ex, fl) ==
    {i \in 1..Len(Tasks(p)) : Tasks(p)[i].id \notin ex \cup fl}

\* a validation that wants every task completed, required or not
validatePhaseCompletion_EveryTask(p, ts) ==
    \A i \in 1..Len(Tasks(p)) : ts[Tasks(p)[i].id] = "completed"

validatePhaseCompletion(p, ts) ==
    \A i \in 1..Len(Tasks(p)) :
        Tasks(p)[i].required => ts[Tasks(p)[i].id] = "completed"

\* executeTask up to its await: every task of the frontier is set running
\* and handed to TaskExecutor.executeTask, in frontier order
StartTasks(p, fr, ts) ==
    [t \in DOMAIN ts |->
        IF \E j \in 1..Len(fr) : Tasks(p)[fr[j]].id = t THEN "running" ELSE ts[t]]

FrontierIds(p, fr) == [j \in 1..Len(fr) |-> Tasks(p)[fr[j]].id]

\* a scheduling loop that leaves the loop on an empty frontier without
\* looking for pending tasks
SchedulingLoop_BreaksOnEmptyFrontier(p, ex, fl, ts, ord) ==
    LET more == Cardinality(ex) + Cardinality(fl) < Len(Tasks(p))
        fr == Frontier(p, ex, fl)
    IN  IF more /\ fr # <<>>
        THEN [kind |-> "wait", err |-> NoErr, frontier |-> fr,
              ts |-> StartTasks(p, fr, ts), order |-> ord \o FrontierIds(p, fr)]
        ELSE IF fl # {}
        THEN [kind |-> "throw", err |-> ErrRequired, frontier |-> <<>>, ts |-> ts, order |-> ord]
        ELSE IF ~validatePhaseCompletion(p, ts)
        THEN [kind |-> "throw", err |-> ErrValidation, frontier |-> <<>>, ts |-> ts, order |-> ord]
        ELSE [kind |-> "ok", err |-> NoErr, frontier |-> <<>>, ts |-> ts, order |-> ord]

\* One pass of the scheduling loop of executePhase, from the loop test to
\* the next await or to the end of the call
SchedulingLoop(p, ex, fl, ts, ord) ==
    LET more == Cardinality(ex) + Cardinality(fl) < Len(Tasks(p))
        fr == Frontier(p, ex, fl)
    IN  IF more /\ fr # <<>>
        THEN [kind |-> "wait", err |-> NoErr, frontier |-> fr,
              ts |-> StartTasks(p, fr, ts), order |-> ord \o FrontierIds(p, fr)]
        ELSE IF more /\ PendingTasks(p, ex, fl) # {}
        THEN [kind |-> "throw", err |-> ErrSched, frontier |-> <<>>, ts |-> ts, order |-> ord]
        ELSE IF fl # {}
        THEN [kind |-> "throw", err |-> ErrRequired, frontier |-> <<>>, ts |-> ts, order |-> ord]
        ELSE IF ~validatePhaseCompletion(p, ts)
        THEN [kind |-> "throw", err |-> ErrValidation, frontier |-> <<>>, ts |-> ts, order |-> ord]
        ELSE [kind |-> "ok", err |-> NoErr, frontier |-> <<>>, ts |-> ts, order |-> ord]

\* a classification that does not add a failed optional task to executedTasks
SettledExecuted_OnlyFulfilled(p, fr, settled) ==
    {Tasks(p)[fr[j]].id : j \in {j \in 1..Len(fr) : settled[j] = "ok"}}

\* results.forEach after Promise.allSettled
SettledExecuted(p, fr, settled) ==
    {Tasks(p)[fr[j]].id : j \in {j \in 1..Len(fr) :
        settled[j] = "ok" \/ (settled[j] = "fail" /\ ~Tasks(p)[fr[j]].required)}}

SettledFailed(p, fr, settled) ==
    {Tasks(p)[fr[j]].id : j \in {j \in 1..Len(fr) :
        settled[j] = "fail" /\ Tasks(p)[fr[j]].required}}

SettledSkipped(p, fr, settled) ==
    {Tasks(p)[fr[j]].id : j \in {j \in 1..Len(fr) :
        settled[j] = "fail" /\ ~Tasks(p)[fr[j]].required}}

MarkSkipped(p, fr, settled, ts) ==
    [t \in DOMAIN ts |->
        IF t \in SettledSkipped(p, fr, settled) /\ ts[t] # Absent THEN "skipped" ELSE ts[t]]

\* a field of a TaskInstance that is undefined
Undefined == "undefined"
\* no TaskInstance under a task id
NoTaskInstance ==
    [state |-> Absent, retryCount |-> 0, result |-> Undefined, error |-> Undefined]

\* a rollback that resets every TaskInstance, whatever its state
rollbackPhase_ResetsEveryTask(pi) ==
    [pi EXCEPT
        !.state = "rolled_back",
        !.taskStates = [t \in DOMAIN @ |->
            IF @[t].state # Absent
            THEN [@[t] EXCEPT !.state = "pending", !.result = Undefined, !.error = Undefined]
            ELSE @[t]]]

\* rollbackPhase on a PhaseInstance whose TaskInstances carry their state,
\* retry counter, result and error
rollbackPhase(pi) ==
    [pi EXCEPT
        !.state = "rolled_back",
        !.taskStates = [t \in DOMAIN @ |->
            IF @[t].state = "completed"
            THEN [@[t] EXCEPT !.state = "pending", !.result = Undefined, !.error = Undefined]
            ELSE @[t]]]

\* TaskExecutor.executeTask as PhaseExecutor sees it: the promise of a
\* (pluggable) task executor resolves or rejects
TaskOutcomes == {"ok", "fail"}

----------------------------------------------------------------------------
\* TaskExecutor

\* JavaScript values as they are written: undefined, null, the booleans, the
\* number 0, and strings in quotes
JsUndefined == "undefined"
JsTrue == "true"
JsFalse == "false"
Falsy(v) == v \in {JsUndefined, "null", JsFalse, "0", "''"}
JsBoolean(b) == IF b THEN JsTrue ELSE JsFalse
\* a && b
JsAnd(a, b) == IF Falsy(a) THEN a ELSE b
\* a || b
JsOr(a, b) == IF Falsy(a) THEN b ELSE a

\* context.metadata is undefined
NoTaskMetadata ==
    [present |-> FALSE, autoApprove |-> JsUndefined,
     approvedTasks |-> [present |-> FALSE, ids |-> {}],
     approvalDecisions |-> [present |-> FALSE, of |-> <<>>]]

\* approvalDecisions?.[id]
DecisionOf(md, id) ==
    IF md.present /\ md.approvalDecisions.present /\ id \in DOMAIN md.approvalDecisions.of
    THEN md.approvalDecisions.of[id]
    ELSE JsUndefined

\* an approval that is given only on a decision of true
executeApprovalTask_ApprovesOnlyTrue(task, md) ==
    IF md.present /\ (md.autoApprove = JsTrue
                        \/ (md.approvedTasks.present /\ task.id \in md.approvedTasks.ids))
    THEN [status |-> "'approved'", approvedBy |-> "'system'", autoApproved |-> JsTrue,
          reason |-> JsUndefined]
    ELSE LET approved == DecisionOf(md, task.id) = JsTrue
         IN  [status |-> IF approved THEN "'approved'" ELSE "'rejected'",
              approvedBy |-> JsOr(task.assignee, "'approver'"),
              autoApproved |-> JsUndefined,
              reason |-> IF approved THEN "'Criteria met'"
                         ELSE "'Requirements not satisfied'"]

\* executeApprovalTask: the result it resolves with
executeApprovalTask(task, md) ==
    IF md.present /\ (md.autoApprove = JsTrue
                        \/ (md.approvedTasks.present /\ task.id \in md.approvedTasks.ids))
    THEN [status |-> "'approved'", approvedBy |-> "'system'", autoApproved |-> JsTrue,
          reason |-> JsUndefined]
    ELSE LET approved == DecisionOf(md, task.id) # JsFalse
         IN  [status |-> IF approved THEN "'approved'" ELSE "'rejected'",
              approvedBy |-> JsOr(task.assignee, "'approver'"),
              autoApproved |-> JsUndefined,
              reason |-> IF approved THEN "'Criteria met'"
                         ELSE "'Requirements not satisfied'"]

\* taskInstance.result is undefined
NoResult == [present |-> FALSE, status |-> JsUndefined, completedBy |-> JsUndefined]

\* validateTaskResult: the value it resolves with
validateTaskResult(task, result) ==
    IF ~result.present THEN JsFalse
    ELSE IF task.type = "automated" THEN JsBoolean(result.status = "'success'")
    ELSE IF task.type = "manual"
    THEN JsAnd(JsBoolean(result.status = "'success'"), result.completedBy)
    ELSE IF task.type = "review"
    THEN JsBoolean(result.status \in {"'approved'", "'passed'"})
    ELSE IF task.type = "approval" THEN JsBoolean(result.status = "'approved'")
    ELSE JsBoolean(result.status \in {"'success'", "'completed'"})

\* TaskExecutor.executeTask: the result it resolves with (status; the fields
\* of an approval).  No branch of it throws.
executeTask(task, md) ==
    IF task.type = "approval" THEN executeApprovalTask(task, md)
    ELSE [status |-> IF task.type = "review" THEN "'approved'" ELSE "'success'",
          approvedBy |-> JsUndefined, autoApproved |-> JsUndefined,
          reason |-> JsUndefined]

----------------------------------------------------------------------------
\* Call chains

NewChain(op, pc) ==
    [op |-> op, pc |-> pc, phase |-> 0, target |-> 0, ctx |-> NoMeta,
     canT |-> FALSE, inTry |-> FALSE, err |-> NoErr,
     executed |-> {}, failed |-> {}, frontier |-> <<>>, settled |-> <<>>,
     order |-> <<>>, result |-> "pending"]

getWorkflowInstance(id) == IF id = InstanceId THEN inst ELSE NoInst

\* what the step hands back to a client: the call made in this step and how
\* it returned (a started chain is "pending"), or NoCall for a step of a chain
Called(op, id, arg, result) == [op |-> op, id |-> id, arg |-> arg, result |-> result]
NoCall == Called("none", "", "", "")

Rejections ==
    {"WORKFLOW_NOT_FOUND", "INSTANCE_NOT_FOUND", "INVALID_STATE", "NO_CURRENT_PHASE",
     ErrInvalidPhase, ErrNoTransition}

\* the call of this state was rejected before it changed anything
Rejected == last.result \in Rejections

\* instance.metadata || {}
OrEmpty(m) == IF m.present THEN m ELSE EmptyMeta

\* config.maxRetries || 3
RetryLimit == IF config.maxRetries = 0 THEN DefaultMaxRetries ELSE config.maxRetries

SetChain(k, c) == chains' = [chains EXCEPT ![k] = c]

\* the chain's promise settles: resolved, or rejected with an error
Settle(k, r) == SetChain(k, [NewChain(chains[k].op, "done") EXCEPT !.result = r])

----------------------------------------------------------------------------
\* StateMachine: public operations

\* a startWorkflow that does not look the workflow up
startWorkflow_NoLookup(wid) ==
    /\ ~inst.exists
    /\ inst' = [exists |-> TRUE, state |-> "running", cur |-> def.initialPhase,
                phaseStates |-> [p \in PhaseIds |->
                    [state |-> "pending", retryCount |-> 0,
                     taskStates |-> [t \in 1..MaxTasks |-> Absent]]],
                error |-> NoErr, completedAt |-> FALSE, metadata |-> initialData]
    /\ store' = updateInstance(inst')
    /\ chains' = Append(chains, NewChain("startWorkflow", "start_saved"))
    /\ last' = Called("startWorkflow", wid, "", "pending")
    /\ UNCHANGED <<def, config, heap, outcomes, initialData, peCalls>>

\* a startWorkflow that creates the PhaseInstance of the initial phase only
startWorkflow_InitialPhaseOnly(wid) ==
    /\ IF wid # WorkflowId
       THEN /\ last' = Called("startWorkflow", wid, "", "WORKFLOW_NOT_FOUND")
            /\ UNCHANGED <<inst, store, chains>>
       ELSE /\ ~inst.exists
            /\ inst' = [exists |-> TRUE, state |-> "running", cur |-> def.initialPhase,
                        phaseStates |-> [p \in {def.initialPhase} |->
                            [state |-> "pending", retryCount |-> 0,
                             taskStates |-> [t \in 1..MaxTasks |-> Absent]]],
                        error |-> NoErr, completedAt |-> FALSE, metadata |-> initialData]
            /\ store' = updateInstance(inst')
            /\ chains' = Append(chains, NewChain("startWorkflow", "start_saved"))
            /\ last' = Called("startWorkflow", wid, "", "pending")
    /\ UNCHANGED <<def, config, heap, outcomes, initialData, peCalls>>

\* startWorkflow, up to the await of saveWorkflowInstance
startWorkflow(wid) ==
    /\ IF wid # WorkflowId
       THEN /\ last' = Called("startWorkflow", wid, "", "WORKFLOW_NOT_FOUND")
            /\ UNCHANGED <<inst, store, chains>>
       ELSE /\ ~inst.exists
            /\ inst' = [exists |-> TRUE, state |-> "running", cur |-> def.initialPhase,
                        phaseStates |-> [p \in PhaseIds |->
                            [state |-> "pending", retryCount |-> 0,
                             taskStates |-> [t \in 1..MaxTasks |-> Absent]]],
                        error |-> NoErr, completedAt |-> FALSE, metadata |-> initialData]
            /\ store' = updateInstance(inst')
            /\ chains' = Append(chains, NewChain("startWorkflow", "start_saved"))
            /\ last' = Called("startWorkflow", wid, "", "pending")
    /\ UNCHANGED <<def, config, heap, outcomes, initialData, peCalls>>

\* a pauseWorkflow without the check of the current state
pauseWorkflow_NoStateCheck(id) ==
    LET instance == getWorkflowInstance(id)
    IN  /\ IF ~instance.exists
           THEN /\ last' = Called("pauseWorkflow", id, "", "INSTANCE_NOT_FOUND")
                /\ UNCHANGED <<inst, store>>
           ELSE /\ inst' = [inst EXCEPT !.state = "paused"]
                /\ store' = updateInstance(inst')
                /\ last' = Called("pauseWorkflow", id, "", "ok")
        /\ UNCHANGED <<def, config, heap, outcomes, initialData, chains, peCalls>>

pauseWorkflow(id) ==
    LET instance == getWorkflowInstance(id)
    IN  /\ IF ~instance.exists
           THEN /\ last' = Called("pauseWorkflow", id, "", "INSTANCE_NOT_FOUND")
                /\ UNCHANGED <<inst, store>>
           ELSE IF instance.state # "running"
           THEN /\ last' = Called("pauseWorkflow", id, "", "INVALID_STATE")
                /\ UNCHANGED <<inst, store>>
           ELSE /\ inst' = [inst EXCEPT !.state = "paused"]
                /\ store' = updateInstance(inst')
                /\ last' = Called("pauseWorkflow", id, "", "ok")
        /\ UNCHANGED <<def, config, heap, outcomes, initialData, chains, peCalls>>

\* resumeWorkflow, up to the await of updateInstance
resumeWorkflow(id) ==
    LET instance == getWorkflowInstance(id)
    IN  /\ IF ~instance.exists
           THEN /\ last' = Called("resumeWorkflow", id, "", "INSTANCE_NOT_FOUND")
                /\ UNCHANGED <<inst, store, chains>>
           ELSE IF instance.state # "paused"
           THEN /\ last' = Called("resumeWorkflow", id, "", "INVALID_STATE")
                /\ UNCHANGED <<inst, store, chains>>
           ELSE /\ Len(chains) < MaxChains
                /\ inst' = [inst EXCEPT !.state = "running"]
                /\ store' = updateInstance(inst')
                /\ chains' = Append(chains, NewChain("resumeWorkflow", "resume_saved"))
                /\ last' = Called("resumeWorkflow", id, "", "pending")
        /\ UNCHANGED <<def, config, heap, outcomes, initialData, peCalls>>

\* reason || 'Workflow cancelled': an omitted reason and the empty string are
\* both falsy
CancelMessage(reason) ==
    IF reason = NoReason \/ reason = "" THEN DefaultCancelMessage ELSE reason

\* a cancelWorkflow that records the reason as given, without the default
cancelWorkflow_NoDefaultMessage(id, reason) ==
    LET instance == getWorkflowInstance(id)
    IN  /\ IF ~instance.exists
           THEN /\ last' = Called("cancelWorkflow", id, reason, "INSTANCE_NOT_FOUND")
                /\ UNCHANGED <<inst, store>>
           ELSE /\ inst' = [inst EXCEPT !.state = "failed", !.completedAt = TRUE,
                                        !.error = reason]
                /\ store' = updateInstance(inst')
                /\ last' = Called("cancelWorkflow", id, reason, "ok")
        /\ UNCHANGED <<def, config, heap, outcomes, initialData, chains, peCalls>>

cancelWorkflow(id, reason) ==
    LET instance == getWorkflowInstance(id)
    IN  /\ IF ~instance.exists
           THEN /\ last' = Called("cancelWorkflow", id, reason, "INSTANCE_NOT_FOUND")
                /\ UNCHANGED <<inst, store>>
           ELSE /\ inst' = [inst EXCEPT !.state = "failed", !.completedAt = TRUE,
                                        !.error = CancelMessage(reason)]
                /\ store' = updateInstance(inst')
                /\ last' = Called("cancelWorkflow", id, reason, "ok")
        /\ UNCHANGED <<def, config, heap, outcomes, initialData, chains, peCalls>>

\* transitionToPhase from its entry to the await of canTransition: the error
\* it throws, or the verdict of the validator
TransitionCheck(target, ctx) ==
    LET from == inst.cur
        found == Filter(getAvailableTransitions(from),
                        {i \in 1..Len(def.transitions) : def.transitions[i].to = target})
    IN  IF from = NoPhase
        THEN [err |-> "NO_CURRENT_PHASE", canT |-> FALSE]
        ELSE IF ~getPhase(from) \/ ~getPhase(target)
        THEN [err |-> ErrInvalidPhase, canT |-> FALSE]
        ELSE IF found = <<>>
        THEN [err |-> ErrNoTransition, canT |-> FALSE]
        ELSE [err |-> NoErr,
              canT |-> canTransition(inst, from, def.transitions[found[1]], ctx)]

\* transitionToPhase called by a client
transitionToPhase(id, target, ctx) ==
    LET instance == getWorkflowInstance(id)
        chk == TransitionCheck(target, ctx)
    IN  /\ IF ~instance.exists
           THEN /\ last' = Called("transitionToPhase", id, "", "INSTANCE_NOT_FOUND")
                /\ UNCHANGED chains
           ELSE IF chk.err # NoErr
           THEN /\ last' = Called("transitionToPhase", id, "", chk.err)
                /\ UNCHANGED chains
           ELSE /\ Len(chains) < MaxChains
                /\ chains' = Append(chains,
                      [NewChain("transitionToPhase", "tr_validated")
                          EXCEPT !.target = target, !.ctx = ctx, !.canT = chk.canT])
                /\ last' = Called("transitionToPhase", id, "", "pending")
        /\ UNCHANGED <<def, config, heap, outcomes, initialData, inst, store, peCalls>>

----------------------------------------------------------------------------
\* StateMachine: the steps of a call chain

\* executePhase from its entry to the await of updateInstance
EnterPhase(k, p) ==
    /\ inst' = [inst EXCEPT !.phaseStates[p].state = "active"]
    /\ store' = updateInstance(inst')
    /\ SetChain(k, [chains[k] EXCEPT !.pc = "ep_run", !.phase = p])

\* startWorkflow after the save: "Start initial phase"
StartInitialPhase(k) ==
    /\ chains[k].pc = "start_saved"
    /\ EnterPhase(k, def.initialPhase)
    /\ last' = NoCall
    /\ UNCHANGED <<def, config, heap, outcomes, initialData, peCalls>>

\* resumeWorkflow after the update: "Continue with current phase"
ResumeCurrentPhase(k) ==
    /\ chains[k].pc = "resume_saved"
    /\ IF inst.cur # NoPhase
       THEN EnterPhase(k, inst.cur)
       ELSE /\ Settle(k, "resolved")
            /\ UNCHANGED <<inst, store>>
    /\ last' = NoCall
    /\ UNCHANGED <<def, config, heap, outcomes, initialData, peCalls>>

\* the outcome of a pass of the scheduling loop, written to the chain
AfterLoop(k, p, ex, fl, r) ==
    /\ inst' = [inst EXCEPT !.phaseStates[p].taskStates = r.ts]
    /\ SetChain(k, [chains[k] EXCEPT
            !.pc = IF r.kind = "wait" THEN "pe_wait"
                   ELSE IF r.kind = "ok" THEN "ep_ok" ELSE "ep_catch",
            !.err = r.err,
            !.executed = ex, !.failed = fl,
            !.frontier = r.frontier,
            !.settled = [j \in 1..Len(r.frontier) |-> "pending"],
            !.order = r.order])

\* executePhase calls PhaseExecutor.executePhase, which runs to its first
\* await (Promise.allSettled) or to its end
CallPhaseExecutor(k) ==
    LET p == chains[k].phase
        ts == InitTaskStates(p, inst.phaseStates[p].taskStates)
    IN  /\ chains[k].pc = "ep_run"
        /\ AfterLoop(k, p, {}, {}, SchedulingLoop(p, {}, {}, ts, <<>>))
        /\ peCalls' = [peCalls EXCEPT ![p] = @ + 1]
        /\ last' = NoCall
        /\ UNCHANGED <<def, config, heap, outcomes, initialData, store>>

\* PhaseExecutor.executeTask after the await of TaskExecutor.executeTask
TaskSettles(k, j) ==
    LET p == chains[k].phase
        t == Tasks(p)[chains[k].frontier[j]].id
    IN  /\ chains[k].pc = "pe_wait"
        /\ j \in 1..Len(chains[k].frontier)
        /\ chains[k].settled[j] = "pending"
        /\ \E o \in TaskOutcomes :
            /\ inst' = [inst EXCEPT !.phaseStates[p].taskStates[t] =
                            IF o = "ok" THEN "completed" ELSE "failed"]
            /\ SetChain(k, [chains[k] EXCEPT !.settled[j] = o])
            /\ outcomes' = [outcomes EXCEPT ![p][t] = @ \cup {o}]
        /\ last' = NoCall
        /\ UNCHANGED <<def, config, heap, initialData, store, peCalls>>

\* an executePhase that goes on as soon as one task of the frontier has
\* settled
FrontierSettled_FirstSettled(k) ==
    LET c == chains[k]
        p == c.phase
        ex == c.executed \cup SettledExecuted(p, c.frontier, c.settled)
        fl == c.failed \cup SettledFailed(p, c.frontier, c.settled)
        ts == MarkSkipped(p, c.frontier, c.settled, inst.phaseStates[p].taskStates)
    IN  /\ c.pc = "pe_wait"
        /\ \E j \in 1..Len(c.frontier) : c.settled[j] # "pending"
        /\ AfterLoop(k, p, ex, fl, SchedulingLoop(p, ex, fl, ts, c.order))
        /\ last' = NoCall
        /\ UNCHANGED <<def, config, heap, outcomes, initialData, store, peCalls>>

\* the metadata of the instance as the task context carries it
\* (metadata: instance.metadata, then metadata: context.metadata)
TaskMetadataOf(m) ==
    IF ~m.present THEN NoTaskMetadata
    ELSE [present |-> TRUE, autoApprove |-> JsBoolean(m.autoApprove),
          approvedTasks |-> m.approvedTasks,
          approvalDecisions |-> m.approvalDecisions]

\* PhaseExecutor.executeTask after the await of TaskExecutor.executeTask,
\* with the TaskExecutor of the repository: the promise is fulfilled with the
\* result, whatever its status, and the task is marked completed
TaskExecutorSettles(k, j) ==
    LET p == chains[k].phase
        task == Tasks(p)[chains[k].frontier[j]]
        result == executeTask(task, TaskMetadataOf(inst.metadata))
    IN  /\ chains[k].pc = "pe_wait"
        /\ j \in 1..Len(chains[k].frontier)
        /\ chains[k].settled[j] = "pending"
        /\ inst' = [inst EXCEPT !.phaseStates[p].taskStates[task.id] = "completed"]
        /\ SetChain(k, [chains[k] EXCEPT !.settled[j] = "ok"])
        /\ outcomes' = [outcomes EXCEPT ![p][task.id] = @ \cup {"ok", result.status}]
        /\ last' = NoCall
        /\ UNCHANGED <<def, config, heap, initialData, store, peCalls>>

\* PhaseExecutor.executePhase after Promise.allSettled: the results are
\* classified and the loop goes round
FrontierSettled(k) ==
    LET c == chains[k]
        p == c.phase
        ex == c.executed \cup SettledExecuted(p, c.frontier, c.settled)
        fl == c.failed \cup SettledFailed(p, c.frontier, c.settled)
        ts == MarkSkipped(p, c.frontier, c.settled, inst.phaseStates[p].taskStates)
    IN  /\ c.pc = "pe_wait"
        /\ \A j \in 1..Len(c.frontier) : c.settled[j] # "pending"
        /\ AfterLoop(k, p, ex, fl, SchedulingLoop(p, ex, fl, ts, c.order))
        /\ last' = NoCall
        /\ UNCHANGED <<def, config, heap, outcomes, initialData, store, peCalls>>

\* an executePhase that leaves the phase active after it was executed
PhaseCompleted_LeavesActive(k) ==
    /\ chains[k].pc = "ep_ok"
    /\ UNCHANGED <<inst, store>>
    /\ SetChain(k, [chains[k] EXCEPT !.pc = "ep_next"])
    /\ last' = NoCall
    /\ UNCHANGED <<def, config, heap, outcomes, initialData, peCalls>>

\* executePhase after PhaseExecutor.executePhase resolved
PhaseCompleted(k) ==
    LET p == chains[k].phase
    IN  /\ chains[k].pc = "ep_ok"
        /\ inst' = [inst EXCEPT !.phaseStates[p].state = "completed"]
        /\ store' = updateInstance(inst')
        /\ SetChain(k, [chains[k] EXCEPT !.pc = "ep_next"])
        /\ last' = NoCall
        /\ UNCHANGED <<def, config, heap, outcomes, initialData, peCalls>>

\* a completeWorkflow that does not persist
completeWorkflow_NotPersisted(k) ==
    /\ inst' = [inst EXCEPT !.state = "completed", !.completedAt = TRUE]
    /\ UNCHANGED store
    /\ Settle(k, "resolved")

\* completeWorkflow
completeWorkflow(k) ==
    /\ inst' = [inst EXCEPT !.state = "completed", !.completedAt = TRUE]
    /\ store' = updateInstance(inst')
    /\ Settle(k, "resolved")

\* executePhase, "Check for next phases": the automatic transitionToPhase up
\* to its await of canTransition, or completeWorkflow
NextPhaseOrComplete(k) ==
    LET p == chains[k].phase
        ctx == OrEmpty(inst.metadata)
    IN  /\ chains[k].pc = "ep_next"
        /\ IF Len(def.nextPhases[p]) > 0
           THEN LET target == def.nextPhases[p][1]
                    chk == TransitionCheck(target, ctx)
                IN  /\ SetChain(k, [chains[k] EXCEPT
                            !.pc = IF chk.err # NoErr THEN "ep_catch" ELSE "tr_validated",
                            !.err = chk.err, !.target = target, !.ctx = ctx,
                            !.canT = chk.canT, !.inTry = TRUE])
                    /\ UNCHANGED <<inst, store>>
           ELSE completeWorkflow(k)
        /\ last' = NoCall
        /\ UNCHANGED <<def, config, heap, outcomes, initialData, peCalls>>

\* a transitionToPhase that updates the current phase before it looks at the
\* verdict of the validator
TransitionValidated_UpdatesFirst(k) ==
    LET c == chains[k]
    IN  /\ c.pc = "tr_validated"
        /\ inst' = [inst EXCEPT
                !.phaseStates = IF inst.cur \in DOMAIN inst.phaseStates
                                THEN [@ EXCEPT ![inst.cur].state = "completed"]
                                ELSE @,
                !.cur = c.target]
        /\ store' = updateInstance(inst')
        /\ IF ~c.canT
           THEN IF c.inTry
                THEN SetChain(k, [c EXCEPT !.pc = "ep_catch", !.err = ErrTransition])
                ELSE Settle(k, ErrTransition)
           ELSE SetChain(k, [c EXCEPT !.pc = "tr_saved"])
        /\ last' = NoCall
        /\ UNCHANGED <<def, config, heap, outcomes, initialData, peCalls>>

\* a transitionToPhase that does not mark the outgoing phase completed
TransitionValidated_KeepsOutgoing(k) ==
    LET c == chains[k]
    IN  /\ c.pc = "tr_validated"
        /\ IF ~c.canT
           THEN /\ IF c.inTry
                   THEN SetChain(k, [c EXCEPT !.pc = "ep_catch", !.err = ErrTransition])
                   ELSE Settle(k, ErrTransition)
                /\ UNCHANGED <<inst, store>>
           ELSE /\ inst' = [inst EXCEPT !.cur = c.target]
                /\ store' = updateInstance(inst')
                /\ SetChain(k, [c EXCEPT !.pc = "tr_saved"])
        /\ last' = NoCall
        /\ UNCHANGED <<def, config, heap, outcomes, initialData, peCalls>>

\* transitionToPhase after the await of canTransition
TransitionValidated(k) ==
    LET c == chains[k]
    IN  /\ c.pc = "tr_validated"
        /\ IF ~c.canT
           THEN /\ IF c.inTry
                   THEN SetChain(k, [c EXCEPT !.pc = "ep_catch", !.err = ErrTransition])
                   ELSE Settle(k, ErrTransition)
                /\ UNCHANGED <<inst, store>>
           ELSE /\ inst' = [inst EXCEPT
                        !.phaseStates = IF inst.cur \in DOMAIN inst.phaseStates
                                        THEN [@ EXCEPT ![inst.cur].state = "completed"]
                                        ELSE @,
                        !.cur = c.target]
                /\ store' = updateInstance(inst')
                /\ SetChain(k, [c EXCEPT !.pc = "tr_saved"])
        /\ last' = NoCall
        /\ UNCHANGED <<def, config, heap, outcomes, initialData, peCalls>>

\* transitionToPhase after the update: "Execute new phase"
ExecuteNewPhase(k) ==
    /\ chains[k].pc = "tr_saved"
    /\ EnterPhase(k, chains[k].target)
    /\ last' = NoCall
    /\ UNCHANGED <<def, config, heap, outcomes, initialData, peCalls>>

\* executePhase, catch: mark the phase failed, then retry or give up
PhaseFailed(k) ==
    LET c == chains[k]
        p == c.phase
    IN  /\ c.pc = "ep_catch"
        /\ IF config.enableRetries /\ inst.phaseStates[p].retryCount < RetryLimit
           THEN /\ inst' = [inst EXCEPT !.phaseStates[p].state = "failed",
                                        !.phaseStates[p].retryCount = @ + 1]
                /\ SetChain(k, [c EXCEPT !.pc = "ep_retry"])
                /\ UNCHANGED store
           ELSE /\ inst' = [inst EXCEPT !.phaseStates[p].state = "failed"]
                /\ store' = updateInstance(inst')
                /\ SetChain(k, [c EXCEPT !.pc = "ep_fail"])
        /\ last' = NoCall
        /\ UNCHANGED <<def, config, heap, outcomes, initialData, peCalls>>

\* executePhase, catch, after the retry delay: execute the phase again
RetryPhase(k) ==
    /\ chains[k].pc = "ep_retry"
    /\ EnterPhase(k, chains[k].phase)
    /\ last' = NoCall
    /\ UNCHANGED <<def, config, heap, outcomes, initialData, peCalls>>

\* a failWorkflow that throws the phase error on to the caller
failWorkflow_Rethrows(k) ==
    /\ chains[k].pc = "ep_fail"
    /\ inst' = [inst EXCEPT !.state = "failed", !.completedAt = TRUE,
                            !.error = chains[k].err]
    /\ store' = updateInstance(inst')
    /\ Settle(k, chains[k].err)
    /\ last' = NoCall
    /\ UNCHANGED <<def, config, heap, outcomes, initialData, peCalls>>

\* a failWorkflow that does not stamp the completion time
failWorkflow_NoTimestamp(k) ==
    /\ chains[k].pc = "ep_fail"
    /\ inst' = [inst EXCEPT !.state = "failed", !.error = chains[k].err]
    /\ store' = updateInstance(inst')
    /\ Settle(k, "resolved")
    /\ last' = NoCall
    /\ UNCHANGED <<def, config, heap, outcomes, initialData, peCalls>>

\* failWorkflow
failWorkflow(k) ==
    /\ chains[k].pc = "ep_fail"
    /\ inst' = [inst EXCEPT !.state = "failed", !.completedAt = TRUE,
                            !.error = chains[k].err]
    /\ store' = updateInstance(inst')
    /\ Settle(k, "resolved")
    /\ last' = NoCall
    /\ UNCHANGED <<def, config, heap, outcomes, initialData, peCalls>>

----------------------------------------------------------------------------
\* Workflow definitions, configurations and inputs

Task(id, required, deps) == [id |-> id, required |-> required, deps |-> deps]

\* every list of n tasks with distinct ids 1..n, any required flags and any
\* dependencies among them (cycles and self-dependencies included)
TaskLists(n) ==
    {[i \in 1..n |-> Task(i, f[i].required, f[i].deps)] :
        f \in [1..n -> [required : BOOLEAN, deps : SUBSET (1..n)]]}

\* n phases chained by nextPhases, one transition per link, the same task
\* list in every phase
ChainDef(n, tl, appr, conds) ==
    [phases |-> Indexes(n),
     initialPhase |-> 1,
     nextPhases |-> [p \in 1..n |-> IF p < n THEN <<p + 1>> ELSE <<>>],
     transitions |-> [i \in 1..(n - 1) |->
        [from |-> i, to |-> i + 1, requiresApproval |-> appr, conditions |-> conds]],
     tasks |-> [p \in 1..n |-> tl]]

Configs ==
    {c \in [enablePersistence : BOOLEAN, enableRetries : BOOLEAN,
            maxRetries : 0..MaxRetriesCfg] :
        ~c.enableRetries => c.maxRetries = MaxRetriesCfg}

Metas == {NoMeta} \cup [present : {TRUE}, approved : BOOLEAN, autoApprove : BOOLEAN]

InitWith(d, c, data) ==
    /\ def = d
    /\ config = c
    /\ initialData = data
    /\ outcomes = [p \in 1..MaxPhases |-> [t \in 1..MaxTasks |-> {}]]
    /\ inst = NoInst
    /\ store = NoInst
    /\ chains = <<>>
    /\ last = NoCall
    /\ peCalls = [p \in 1..MaxPhases |-> 0]
    /\ heap = EmptyHeap

----------------------------------------------------------------------------
\* SpecPhase: one phase with any task graph, no retries; the workflow is
\* started and left to run

InitPhase ==
    \E n \in 0..MaxTasks : \E tl \in TaskLists(n) :
        InitWith(ChainDef(1, tl, FALSE, {}),
                 [enablePersistence |-> TRUE, enableRetries |-> FALSE,
                  maxRetries |-> MaxRetriesCfg],
                 NoMeta)

NextPhase ==
    \/ startWorkflow(WorkflowId)
    \/ \E k \in 1..Len(chains) : StartInitialPhase(k)
    \/ \E k \in 1..Len(chains) : CallPhaseExecutor(k)
    \/ \E k \in 1..Len(chains) : \E j \in 1..MaxTasks : TaskSettles(k, j)
    \/ \E k \in 1..Len(chains) : FrontierSettled(k)
    \/ \E k \in 1..Len(chains) : PhaseCompleted(k)
    \/ \E k \in 1..Len(chains) : NextPhaseOrComplete(k)
    \/ \E k \in 1..Len(chains) : PhaseFailed(k)
    \/ \E k \in 1..Len(chains) : failWorkflow(k)

SpecPhase == InitPhase /\ [][NextPhase]_vars

----------------------------------------------------------------------------
\* SpecRun: a chain of phases, retries as configured; the workflow is
\* started and left to run

RunTaskLists ==
    {<<>>,
     <<Task(1, TRUE, {})>>,
     <<Task(1, TRUE, {}), Task(2, FALSE, {1})>>,
     <<Task(1, FALSE, {}), Task(2, TRUE, {})>>}

InitRun ==
    \E n \in 1..MaxPhases : \E tl \in RunTaskLists :
    \E appr \in BOOLEAN : \E conds \in {{}, {"approved"}, {"completed"}} :
    \E c \in Configs : \E data \in Metas :
        InitWith(ChainDef(n, tl, appr, conds), c, data)

NextRun ==
    \/ startWorkflow(WorkflowId)
    \/ \E k \in 1..Len(chains) : StartInitialPhase(k)
    \/ \E k \in 1..Len(chains) : CallPhaseExecutor(k)
    \/ \E k \in 1..Len(chains) : \E j \in 1..MaxTasks : TaskSettles(k, j)
    \/ \E k \in 1..Len(chains) : FrontierSettled(k)
    \/ \E k \in 1..Len(chains) : PhaseCompleted(k)
    \/ \E k \in 1..Len(chains) : NextPhaseOrComplete(k)
    \/ \E k \in 1..Len(chains) : TransitionValidated(k)
    \/ \E k \in 1..Len(chains) : ExecuteNewPhase(k)
    \/ \E k \in 1..Len(chains) : PhaseFailed(k)
    \/ \E k \in 1..Len(chains) : RetryPhase(k)
    \/ \E k \in 1..Len(chains) : failWorkflow(k)

SpecRun == InitRun /\ [][NextRun]_vars

----------------------------------------------------------------------------
\* SpecBranch: as SpecRun, for definitions whose initial phase declares two
\* next phases, in either order, with a transition to each

BranchDef(first, second, tl, appr, conds) ==
    [phases |-> Indexes(3),
     initialPhase |-> 1,
     nextPhases |-> [p \in 1..3 |-> IF p = 1 THEN <<first, second>> ELSE <<>>],
     transitions |-> [i \in 1..2 |->
        [from |-> 1, to |-> i + 1, requiresApproval |-> appr, conditions |-> conds]],
     tasks |-> [p \in 1..3 |-> tl]]

InitBranch ==
    \E first \in 2..3 : \E tl \in RunTaskLists :
    \E appr \in BOOLEAN : \E conds \in {{}, {"approved"}, {"completed"}} :
    \E c \in Configs : \E data \in Metas :
        InitWith(BranchDef(first, 5 - first, tl, appr, conds), c, data)

SpecBranch == InitBranch /\ [][NextRun]_vars

----------------------------------------------------------------------------
\* Spec: clients call the public operations at any time, also while call
\* chains of the instance are in flight

Reasons == {NoReason, "", "User cancelled"}

Init ==
    \E n \in 1..RacePhases : \E tl \in {<<>>, <<Task(1, TRUE, {})>>} :
    \E c \in {c \in Configs : c.enablePersistence /\ c.maxRetries = 1} :
        InitWith(ChainDef(n, tl, FALSE, {}), c, NoMeta)

\* A rejected call leaves every variable but last as it was, and the step
\* after it overwrites last: the steps that follow a rejection are the steps
\* that follow the state before it, and are not explored a second time.
Explored == ~Rejected

\* the ids a client can pass: the id startWorkflow has allocated, and an id
\* that names no instance
Ids == IF Explored
       THEN {"unknown"} \cup (IF inst.exists THEN {InstanceId} ELSE {})
       ELSE {}
WorkflowIds == IF Explored THEN {WorkflowId, "unknown"} ELSE {}
Chains == IF Explored THEN 1..Len(chains) ELSE {}

Next ==
    \/ \E wid \in WorkflowIds : startWorkflow(wid)
    \/ \E id \in Ids : pauseWorkflow(id)
    \/ \E id \in Ids : resumeWorkflow(id)
    \/ \E id \in Ids : \E reason \in Reasons : cancelWorkflow(id, reason)
    \/ \E id \in Ids : \E target \in 1..(RacePhases + 1) :
            transitionToPhase(id, target, NoMeta)
    \/ \E k \in Chains : ResumeCurrentPhase(k)
    \/ \E k \in Chains : StartInitialPhase(k)
    \/ \E k \in Chains : CallPhaseExecutor(k)
    \/ \E k \in Chains : \E j \in 1..MaxTasks : TaskSettles(k, j)
    \/ \E k \in Chains : FrontierSettled(k)
    \/ \E k \in Chains : PhaseCompleted(k)
    \/ \E k \in Chains : NextPhaseOrComplete(k)
    \/ \E k \in Chains : TransitionValidated(k)
    \/ \E k \in Chains : ExecuteNewPhase(k)
    \/ \E k \in Chains : PhaseFailed(k)
    \/ \E k \in Chains : RetryPhase(k)
    \/ \E k \in Chains : failWorkflow(k)

Spec == Init /\ [][Next]_vars

----------------------------------------------------------------------------
\* SpecTransition: clients call transitionToPhase with any context, also
\* while the workflow runs; transitions with and without approval gates and
\* conditions

TransitionPhases == 2

InitTransition ==
    \E n \in 1..TransitionPhases : \E tl \in {<<>>, <<Task(1, TRUE, {})>>} :
    \E appr \in BOOLEAN : \E conds \in {{}, {"approved"}, {"completed"}} :
    \E c \in {c \in Configs : c.enablePersistence /\ c.maxRetries = 1} :
    \E data \in {NoMeta, [present |-> TRUE, approved |-> FALSE, autoApprove |-> TRUE]} :
        InitWith(ChainDef(n, tl, appr, conds), c, data)

NextTransition ==
    \/ \E wid \in WorkflowIds : startWorkflow(wid)
    \/ \E id \in Ids : \E target \in 1..(TransitionPhases + 1) : \E ctx \in Metas :
            transitionToPhase(id, target, ctx)
    \/ \E k \in Chains : StartInitialPhase(k)
    \/ \E k \in Chains : CallPhaseExecutor(k)
    \/ \E k \in Chains : \E j \in 1..MaxTasks : TaskSettles(k, j)
    \/ \E k \in Chains : FrontierSettled(k)
    \/ \E k \in Chains : PhaseCompleted(k)
    \/ \E k \in Chains : NextPhaseOrComplete(k)
    \/ \E k \in Chains : TransitionValidated(k)
    \/ \E k \in Chains : ExecuteNewPhase(k)
    \/ \E k \in Chains : PhaseFailed(k)
    \/ \E k \in Chains : RetryPhase(k)
    \/ \E k \in Chains : failWorkflow(k)

SpecTransition == InitTransition /\ [][NextTransition]_vars

----------------------------------------------------------------------------
\* SpecValidate: PhaseExecutor.validatePhaseCompletion called on a phase
\* context with any required flags and any task states

TaskInstanceStates == {Absent, "pending", "running", "completed", "failed", "skipped"}

InitValidate ==
    \E n \in 0..MaxTasks : \E req \in [1..n -> BOOLEAN] :
    \E ts \in [1..MaxTasks -> TaskInstanceStates] :
        /\ \A t \in (n + 1)..MaxTasks : ts[t] = Absent
        /\ def = ChainDef(1, [i \in 1..n |-> Task(i, req[i], {})], FALSE, {})
        /\ config = [enablePersistence |-> TRUE, enableRetries |-> FALSE,
                     maxRetries |-> MaxRetriesCfg]
        /\ initialData = NoMeta
        /\ outcomes = [p \in 1..MaxPhases |-> [t \in 1..MaxTasks |-> {}]]
        /\ inst = [exists |-> TRUE, state |-> "running", cur |-> 1,
                   phaseStates |-> [p \in {1} |->
                        [state |-> "active", retryCount |-> 0, taskStates |-> ts]],
                   error |-> NoErr, completedAt |-> FALSE, metadata |-> NoMeta]
        /\ store = inst
        /\ chains = <<>>
        /\ last = NoCall
        /\ peCalls = [p \in 1..MaxPhases |-> 0]
        /\ heap = EmptyHeap

\* validatePhaseCompletion(context) returns
ValidatePhaseCompletionCall ==
    /\ last = NoCall
    /\ last' = Called("validatePhaseCompletion", InstanceId, "",
                      IF validatePhaseCompletion(1, inst.phaseStates[1].taskStates)
                      THEN "true" ELSE "false")
    /\ UNCHANGED <<def, config, heap, outcomes, initialData, inst, store, chains, peCalls>>

NextValidate == ValidatePhaseCompletionCall

SpecValidate == InitValidate /\ [][NextValidate]_vars

----------------------------------------------------------------------------
\* SpecRollback: PhaseExecutor.rollbackPhase called on a phase context whose
\* TaskInstances are in any state, with any retry counter, result and error

TaskInstances ==
    {NoTaskInstance} \cup
    {ti \in [state : {"pending", "running", "completed", "failed", "skipped"},
             retryCount : 0..MaxRetriesCfg,
             result : {Undefined, "data"}, error : {Undefined, "error"}] :
        /\ ti.state = "pending" => ti.result = Undefined /\ ti.error = Undefined
        /\ ti.state = "completed" => ti.result # Undefined
        /\ ti.state \in {"failed", "skipped"} => ti.error # Undefined}

InitRollback ==
    \E n \in 0..MaxTasks : \E ts \in [1..MaxTasks -> TaskInstances] :
    \E ps \in {"active", "completed", "failed"} : \E rc \in 0..MaxRetriesCfg :
    \E ws \in {"running", "paused", "failed"} :
        /\ \A t \in 1..MaxTasks : ts[t] = NoTaskInstance <=> t > n
        /\ def = ChainDef(1, [i \in 1..n |-> Task(i, TRUE, {})], FALSE, {})
        /\ config = [enablePersistence |-> TRUE, enableRetries |-> TRUE,
                     maxRetries |-> MaxRetriesCfg]
        /\ initialData = NoMeta
        /\ outcomes = [p \in 1..MaxPhases |-> [t \in 1..MaxTasks |-> {}]]
        /\ inst = [exists |-> TRUE, state |-> ws, cur |-> 1,
                   phaseStates |-> [p \in {1} |->
                        [state |-> ps, retryCount |-> rc, taskStates |-> ts]],
                   error |-> NoErr, completedAt |-> ws = "failed", metadata |-> NoMeta]
        /\ store = inst
        /\ chains = <<>>
        /\ last = NoCall
        /\ peCalls = [p \in 1..MaxPhases |-> 0]
        /\ heap = EmptyHeap

\* rollbackPhase(context) on the context of the current phase
RollbackPhaseCall ==
    /\ last = NoCall
    /\ inst' = [inst EXCEPT !.phaseStates[inst.cur] = rollbackPhase(@)]
    /\ last' = Called("rollbackPhase", InstanceId, "", "ok")
    /\ UNCHANGED <<def, config, heap, outcomes, initialData, store, chains, peCalls>>

NextRollback == RollbackPhaseCall

SpecRollback == InitRollback /\ [][NextRollback]_vars

----------------------------------------------------------------------------
\* SpecPersistence: a caller saves, updates, loads and lists the instance and
\* mutates the objects it holds: the live instance and what load and list
\* have returned.  Here the instance carries its instants and its maps have
\* the keys that were set.

MaxObjects == 3

PersistedTaskMaps ==
    {<<>>,
     <<[state |-> "running", retryCount |-> 0, result |-> Undefined, error |-> Undefined]>>,
     <<[state |-> "completed", retryCount |-> 0, result |-> "data", error |-> Undefined],
       [state |-> "pending", retryCount |-> 0, result |-> Undefined, error |-> Undefined]>>}

InitPersistence ==
    \E n \in 1..RacePhases : \E tm \in PersistedTaskMaps :
    \E ws \in {"running", "completed"} :
        /\ def = ChainDef(n, [t \in 1..Len(tm) |-> Task(t, TRUE, {})], FALSE, {})
        /\ config = [enablePersistence |-> TRUE, enableRetries |-> TRUE,
                     maxRetries |-> MaxRetriesCfg]
        /\ initialData = NoMeta
        /\ outcomes = [p \in 1..MaxPhases |-> [t \in 1..MaxTasks |-> {}]]
        /\ inst = [exists |-> TRUE, state |-> ws, cur |-> 1,
                   phaseStates |-> [p \in 1..n |->
                        [state |-> IF p > 1 THEN "pending"
                                   ELSE IF ws = "completed" THEN "completed" ELSE "active",
                         retryCount |-> 0,
                         startedAt |-> IF p = 1 THEN Date(1) ELSE NoDate,
                         taskStates |-> IF p = 1 THEN tm ELSE <<>>]],
                   error |-> NoErr,
                   completedAt |-> IF ws = "completed" THEN Date(2) ELSE NoDate,
                   metadata |-> NoMeta]
        /\ store = NoInst
        /\ chains = <<>>
        /\ last = NoCall
        /\ peCalls = [p \in 1..MaxPhases |-> 0]
        /\ heap = EmptyHeap

\* what a holder of an instance object can do to it: set a field of the
\* instance, a field of its current PhaseInstance, and a field of its first
\* TaskInstance, which it adds when there is none
Mutations(i) ==
    LET tm == i.phaseStates[i.cur].taskStates
    IN  {[i EXCEPT !.completedAt = Date(3)],
         [i EXCEPT !.phaseStates[i.cur].state = "failed"],
         IF tm = <<>>
         THEN [i EXCEPT !.phaseStates[i.cur].taskStates =
                    <<[state |-> "pending", retryCount |-> 0,
                       result |-> Undefined, error |-> Undefined]>>]
         ELSE [i EXCEPT !.phaseStates[i.cur].taskStates[1].state = "failed",
                        !.phaseStates[i.cur].taskStates[1].error = "error"]} \ {i}

\* persistence.saveWorkflowInstance(instance)
SaveCall ==
    /\ Len(heap.objs) < MaxObjects
    /\ heap' = [saveWorkflowInstance(heap, inst, LiveRef) EXCEPT !.returned = <<>>]
    /\ last' = Called("saveWorkflowInstance", InstanceId, "", "ok")
    /\ UNCHANGED <<def, config, outcomes, initialData, inst, store, chains, peCalls>>

\* persistence.updateWorkflowInstance(id, partial)
UpdateCall(id, partial) ==
    /\ Len(heap.objs) < MaxObjects
    /\ IF id # InstanceId \/ heap.entry = NoRef
       THEN /\ last' = Called("updateWorkflowInstance", id, "", "NOT_FOUND")
            /\ heap' = [heap EXCEPT !.returned = <<>>]
       ELSE /\ last' = Called("updateWorkflowInstance", id, "", "ok")
            /\ heap' = [updateWorkflowInstance(heap, inst, partial) EXCEPT !.returned = <<>>]
    /\ UNCHANGED <<def, config, outcomes, initialData, inst, store, chains, peCalls>>

\* persistence.loadWorkflowInstance(id)
LoadCall(id) ==
    /\ Len(heap.objs) < MaxObjects
    /\ heap' = loadWorkflowInstance(heap, inst, id)
    /\ last' = Called("loadWorkflowInstance", id, "",
                      IF heap'.returned = <<>> THEN "null" ELSE "ok")
    /\ UNCHANGED <<def, config, outcomes, initialData, inst, store, chains, peCalls>>

\* persistence.listWorkflowInstances(filter)
ListCall(stateFilter) ==
    /\ Len(heap.objs) < MaxObjects
    /\ heap' = listWorkflowInstances(heap, inst, stateFilter)
    /\ last' = Called("listWorkflowInstances", "", stateFilter, "ok")
    /\ UNCHANGED <<def, config, outcomes, initialData, inst, store, chains, peCalls>>

\* the caller writes to the object at address a
Mutate(a, holder) ==
    /\ \E v \in Mutations(Deref(heap, inst, a)) :
        IF a = LiveRef
        THEN inst' = v /\ heap' = [heap EXCEPT !.returned = <<>>]
        ELSE inst' = inst /\ heap' = [heap EXCEPT !.objs[a] = v, !.returned = <<>>]
    /\ last' = Called("mutate", "", holder, "ok")
    /\ UNCHANGED <<def, config, outcomes, initialData, store, chains, peCalls>>

NextPersistence ==
    \/ SaveCall
    \/ \E id \in {InstanceId, "unknown"} : \E partial \in {inst, [state |-> "paused"]} :
            (id = InstanceId \/ partial = inst) /\ UpdateCall(id, partial)
    \/ \E id \in {InstanceId, "unknown"} : LoadCall(id)
    \/ \E f \in {NoFilter, "paused"} : ListCall(f)
    \/ Mutate(LiveRef, "live")
    \/ \E a \in heap.held : Mutate(a, "held")

SpecPersistence == InitPersistence /\ [][NextPersistence]_vars

----------------------------------------------------------------------------
\* SpecTask: TaskExecutor called on a task context with any task type, any
\* approval metadata and any result of the TaskInstance

TaskTypes == {"automated", "manual", "review", "approval", "unknown"}
ApprovalTaskIds == 1..2

TaskMetadatas ==
    {NoTaskMetadata} \cup
    [present : {TRUE},
     autoApprove : {JsUndefined, JsTrue, JsFalse, "'true'"},
     approvedTasks : {[present |-> FALSE, ids |-> {}]}
                        \cup [present : {TRUE}, ids : SUBSET ApprovalTaskIds],
     approvalDecisions : {[present |-> FALSE, of |-> <<>>]}
                        \cup [present : {TRUE},
                              of : UNION {[ids -> {JsTrue, JsFalse, "'false'"}] :
                                            ids \in SUBSET ApprovalTaskIds}]]

TaskResults ==
    {NoResult} \cup
    [present : {TRUE},
     status : {JsUndefined, "'success'", "'completed'", "'approved'", "'rejected'"},
     completedBy : {JsUndefined, "''", "'user1'"}]

\* the task of the context, its TaskInstance and the metadata
TheTask == def.tasks[1][1]
TheTaskInstance == inst.phaseStates[1].taskStates[TheTask.id]

InitTask ==
    \E id \in ApprovalTaskIds : \E type \in TaskTypes :
    \E assignee \in {JsUndefined, "'approver1'"} :
    \E md \in TaskMetadatas : \E result \in TaskResults :
        /\ def = ChainDef(1, <<[id |-> id, required |-> TRUE, deps |-> {},
                                type |-> type, assignee |-> assignee]>>, FALSE, {})
        /\ config = [enablePersistence |-> TRUE, enableRetries |-> FALSE,
                     maxRetries |-> MaxRetriesCfg]
        /\ initialData = md
        /\ outcomes = [p \in 1..MaxPhases |-> [t \in 1..MaxTasks |-> {}]]
        /\ inst = [exists |-> TRUE, state |-> "running", cur |-> 1,
                   phaseStates |-> [p \in {1} |->
                        [state |-> "active", retryCount |-> 0,
                         taskStates |-> [t \in {id} |->
                            [state |-> IF result.present THEN "completed" ELSE "running",
                             retryCount |-> 0, result |-> result, error |-> Undefined]]]],
                   error |-> NoErr, completedAt |-> FALSE, metadata |-> NoMeta]
        /\ store = inst
        /\ chains = <<>>
        /\ last = NoCall
        /\ peCalls = [p \in 1..MaxPhases |-> 0]
        /\ heap = EmptyHeap

\* executeTask on an approval task resolves
ExecuteApprovalTaskCall ==
    /\ last = NoCall
    /\ TheTask.type = "approval"
    /\ last' = Called("executeApprovalTask", InstanceId, "",
                      executeApprovalTask(TheTask, initialData))
    /\ UNCHANGED <<def, config, heap, outcomes, initialData, inst, store, chains, peCalls>>

\* validateTaskResult(context) resolves
ValidateTaskResultCall ==
    /\ last = NoCall
    /\ last' = Called("validateTaskResult", InstanceId, "",
                      validateTaskResult(TheTask, TheTaskInstance.result))
    /\ UNCHANGED <<def, config, heap, outcomes, initialData, inst, store, chains, peCalls>>

NextTask ==
    \/ ExecuteApprovalTaskCall
    \/ ValidateTaskResultCall

SpecTask == InitTask /\ [][NextTask]_vars

----------------------------------------------------------------------------
\* SpecApproval: as SpecRun, with approval tasks executed by the TaskExecutor
\* of the repository on the metadata of the instance

TypedTask(id, required, deps, type) ==
    [id |-> id, required |-> required, deps |-> deps, type |-> type,
     assignee |-> JsUndefined]

ApprovalTaskLists ==
    {<<TypedTask(1, req, {}, "approval")>> : req \in BOOLEAN}
    \cup {<<TypedTask(1, TRUE, {}, "automated"), TypedTask(2, req, {1}, "approval")>> :
            req \in BOOLEAN}

\* the metadata a workflow is started with: the flags the transition
\* validator reads and the fields the approval task reads
ApprovalMetas ==
    {NoMeta} \cup
    [present : {TRUE}, approved : BOOLEAN, autoApprove : BOOLEAN,
     approvedTasks : {[present |-> FALSE, ids |-> {}]}
                        \cup [present : {TRUE}, ids : SUBSET ApprovalTaskIds],
     approvalDecisions : {[present |-> FALSE, of |-> <<>>]}
                        \cup [present : {TRUE},
                              of : UNION {[ids -> {JsTrue, JsFalse}] :
                                            ids \in SUBSET ApprovalTaskIds}]]

InitApproval ==
    \E n \in 1..2 : \E tl \in ApprovalTaskLists : \E appr \in BOOLEAN :
    \E c \in {c \in Configs : c.enablePersistence} : \E data \in ApprovalMetas :
        InitWith(ChainDef(n, tl, appr, {}), c, data)

NextApproval ==
    \/ startWorkflow(WorkflowId)
    \/ \E k \in 1..Len(chains) : StartInitialPhase(k)
    \/ \E k \in 1..Len(chains) : CallPhaseExecutor(k)
    \/ \E k \in 1..Len(chains) : \E j \in 1..MaxTasks : TaskExecutorSettles(k, j)
    \/ \E k \in 1..Len(chains) : FrontierSettled(k)
    \/ \E k \in 1..Len(chains) : PhaseCompleted(k)
    \/ \E k \in 1..Len(chains) : NextPhaseOrComplete(k)
    \/ \E k \in 1..Len(chains) : TransitionValidated(k)
    \/ \E k \in 1..Len(chains) : ExecuteNewPhase(k)
    \/ \E k \in 1..Len(chains) : PhaseFailed(k)
    \/ \E k \in 1..Len(chains) : RetryPhase(k)
    \/ \E k \in 1..Len(chains) : failWorkflow(k)

SpecApproval == InitApproval /\ [][NextApproval]_vars

----------------------------------------------------------------------------
\* SpecSchedule: PhaseExecutor.executePhase on one phase with any task list:
\* ids that may repeat, all tasks required or all optional, any dependencies,
\* also on ids no task has and in cycles.  Every step that can be taken is taken in the
\* end: the event loop runs every continuation, and every started task
\* settles.

ScheduleTaskLists(n) ==
    UNION {{[i \in 1..n |-> Task(f[i].id, required, f[i].deps)] :
                f \in [1..n -> [id : 1..MaxTasks, deps : SUBSET (1..MaxTasks)]]} :
            required \in BOOLEAN}

InitSchedule ==
    \E n \in 0..MaxTasks : \E tl \in ScheduleTaskLists(n) :
        InitWith(ChainDef(1, tl, FALSE, {}),
                 [enablePersistence |-> TRUE, enableRetries |-> FALSE,
                  maxRetries |-> MaxRetriesCfg],
                 NoMeta)

NextSchedule ==
    \/ startWorkflow(WorkflowId)
    \/ \E k \in 1..Len(chains) : StartInitialPhase(k)
    \/ \E k \in 1..Len(chains) : CallPhaseExecutor(k)
    \/ \E k \in 1..Len(chains) : \E j \in 1..MaxTasks : TaskSettles(k, j)
    \/ \E k \in 1..Len(chains) : FrontierSettled(k)

FairSchedule ==
    /\ WF_vars(startWorkflow(WorkflowId))
    /\ WF_vars(\E k \in 1..Len(chains) : StartInitialPhase(k))
    /\ WF_vars(\E k \in 1..Len(chains) : CallPhaseExecutor(k))
    /\ WF_vars(\E k \in 1..Len(chains) : \E j \in 1..MaxTasks : TaskSettles(k, j))
    /\ WF_vars(\E k \in 1..Len(chains) : FrontierSettled(k))

SpecSchedule == InitSchedule /\ [][NextSchedule]_vars /\ FairSchedule

----------------------------------------------------------------------------
\* Claims about the machine state

\* the startWorkflow chain has run to its end and nothing else was called
RunDone == Len(chains) = 1 /\ chains[1].pc = "done"

\* C1: every change of the instance's machine state is running->paused by
\* pauseWorkflow, paused->running by resumeWorkflow, running->completed or
\* running->failed by the phase execution, or running|paused->failed by
\* cancelWorkflow.
C1_LegalStateChanges ==
    [][(inst.exists /\ inst'.state # inst.state) =>
        \/ inst.state = "running" /\ inst'.state = "paused" /\ last'.op = "pauseWorkflow"
        \/ inst.state = "paused" /\ inst'.state = "running" /\ last'.op = "resumeWorkflow"
        \/ inst.state = "running" /\ inst'.state \in {"completed", "failed"} /\ last' = NoCall
        \/ inst.state \in {"running", "paused"} /\ inst'.state = "failed"
            /\ last'.op = "cancelWorkflow"]_vars

\* C2: completed and failed are terminal: once the machine state is one of
\* them, no step changes it.
C2_TerminalStates ==
    [][inst.state \in {"completed", "failed"} => inst'.state = inst.state]_vars

\* no transition of the definition is an approval gate
NoApprovalGates ==
    \A i \in 1..Len(def.transitions) :
        ~def.transitions[i].requiresApproval /\ "approved" \notin def.transitions[i].conditions

\* no execution of a task has failed
EveryTaskSucceeds ==
    \A p \in PhaseIds : \A t \in TaskIdsOf(p) : "fail" \notin outcomes[p][t]

\* C3: a workflow of N chained phases without approval gates in which every
\* task succeeds ends completed, at the last phase of the chain, with all N
\* PhaseInstances completed.
C3_RunsToCompletion ==
    (RunDone /\ NoApprovalGates /\ EveryTaskSucceeds) =>
        /\ inst.state = "completed"
        /\ inst.cur = def.phases[Len(def.phases)]
        /\ Cardinality({p \in PhaseIds : inst.phaseStates[p].state = "completed"})
                = Len(def.phases)

C3_Witness ==
    /\ RunDone /\ NoApprovalGates /\ EveryTaskSucceeds
    /\ Len(def.phases) = MaxPhases
    /\ Len(def.tasks[1]) = 2
    /\ inst.state = "completed"
    /\ \A p \in PhaseIds : \A t \in TaskIdsOf(p) : outcomes[p][t] = {"ok"}

\* C4: the instance startWorkflow returns, when the initial phase executed
\* without error, is running at the initial phase, carries initialData and
\* has one PhaseInstance per defined phase.
C4_StartReturnsRunning ==
    (RunDone /\ inst.phaseStates[def.initialPhase].state = "completed") =>
        /\ inst.state = "running"
        /\ inst.cur = def.initialPhase
        /\ inst.metadata = initialData
        /\ DOMAIN inst.phaseStates = PhaseIds

RequiredTaskAlwaysFails(p) ==
    \E i \in 1..Len(Tasks(p)) :
        Tasks(p)[i].required /\ outcomes[p][Tasks(p)[i].id] = {"fail"}

\* C5: a phase with a required task that fails on every attempt leaves the
\* workflow failed, after PhaseExecutor.executePhase was invoked maxRetries+1
\* times with retries enabled and once with retries disabled.
C5_RetriesThenFails ==
    \A p \in PhaseIds :
        (RunDone /\ RequiredTaskAlwaysFails(p)) =>
            /\ inst.state = "failed"
            /\ peCalls[p] = IF config.enableRetries THEN config.maxRetries + 1 ELSE 1

----------------------------------------------------------------------------
\* Claims about PhaseExecutor.executePhase (SpecPhase: the one phase is 1)

\* the call of PhaseExecutor.executePhase has ended: it resolved (ep_ok) or
\* rejected with chains[1].err (ep_catch)
PhaseEnded == Len(chains) = 1 /\ chains[1].pc \in {"ep_ok", "ep_catch"}

TaskStatesOf(i, p) == i.phaseStates[p].taskStates

\* the declared dependencies of the task with id t
DepsOf(tl, t) == UNION {tl[i].deps : i \in {i \in 1..Len(tl) : tl[i].id = t}}

RECURSIVE DepsWithin(_, _, _)
DepsWithin(tl, S, n) ==
    IF n = 0 THEN S
    ELSE DepsWithin(tl, S \cup UNION {DepsOf(tl, t) : t \in S}, n - 1)

\* everything t depends on, directly or through other tasks
TransDeps(tl, t) == DepsWithin(tl, DepsOf(tl, t), Len(tl))

OnCycle(tl, t) == t \in TransDeps(tl, t)
HasCycle(tl) == \E i \in 1..Len(tl) : OnCycle(tl, tl[i].id)
\* t lies on a dependency cycle or depends on a task that does
BehindCycle(tl, t) == OnCycle(tl, t) \/ \E d \in TransDeps(tl, t) : OnCycle(tl, d)

\* C6: a task is started only when every declared dependency is completed
\* or skipped, and the recorded execution order places every dependency of a
\* task before the task (A, B, C for the chain A->B->C).
C6_DependenciesFirst ==
    [][/\ \A k \in 1..Len(chains') : \A j \in 1..Len(chains'[k].order) :
            \A d \in DepsOf(Tasks(chains'[k].phase), chains'[k].order[j]) :
                \E i \in 1..(j - 1) : chains'[k].order[i] = d
       /\ inst.exists =>
            \A t \in TaskIdsOf(1) :
                (TaskStatesOf(inst', 1)[t] = "running" /\ TaskStatesOf(inst, 1)[t] # "running")
                    => \A d \in DepsOf(Tasks(1), t) :
                            /\ d \in TaskIdsOf(1)
                            /\ TaskStatesOf(inst', 1)[d] \in {"completed", "skipped"}]_vars

C6_Witness ==
    /\ PhaseEnded
    /\ Len(Tasks(1)) = 3
    /\ Tasks(1)[1].deps = {} /\ Tasks(1)[2].deps = {1} /\ Tasks(1)[3].deps = {2}
    /\ chains[1].order = <<1, 2, 3>>

\* C7: whenever a required task fails, executePhase rejects with 'Phase
\* execution failed due to required task failures', also when other tasks
\* depend on the failed task.
C7_RequiredFailureError ==
    (PhaseEnded /\ chains[1].failed # {}) =>
        chains[1].pc = "ep_catch" /\ chains[1].err = ErrRequired

FailedOptionalTasks ==
    {t \in TaskIdsOf(1) : "fail" \in outcomes[1][t] /\ t \notin
        {Tasks(1)[i].id : i \in {i \in 1..Len(Tasks(1)) : Tasks(1)[i].required}}}

RequiredTasksSucceeded ==
    \A i \in 1..Len(Tasks(1)) :
        Tasks(1)[i].required => outcomes[1][Tasks(1)[i].id] = {"ok"}

\* C8 as claimed: when a non-required task fails and every required task
\* succeeds, executePhase completes successfully.
C8_OptionalFailureTolerated ==
    (PhaseEnded /\ FailedOptionalTasks # {} /\ RequiredTasksSucceeded) =>
        chains[1].pc = "ep_ok"

\* C8, amended: a non-required task that failed ends skipped; and when the
\* task graph has no cycle and no required task fails, every task is run,
\* also the tasks that depend on a skipped one, and executePhase completes
\* successfully.
C8_OptionalFailureSkipped ==
    PhaseEnded =>
        /\ \A t \in FailedOptionalTasks : TaskStatesOf(inst, 1)[t] = "skipped"
        /\ (~HasCycle(Tasks(1)) /\ chains[1].failed = {}) =>
                /\ chains[1].pc = "ep_ok"
                /\ \A t \in TaskIdsOf(1) :
                        TaskStatesOf(inst, 1)[t] \in {"completed", "skipped"}

C8_Witness ==
    /\ PhaseEnded
    /\ chains[1].pc = "ep_ok"
    /\ \E t \in FailedOptionalTasks :
        /\ TaskStatesOf(inst, 1)[t] = "skipped"
        /\ \E u \in TaskIdsOf(1) :
            t \in DepsOf(Tasks(1), u) /\ TaskStatesOf(inst, 1)[u] = "completed"

\* C9 as claimed: a phase whose task graph contains a cycle fails with the
\* scheduling error before any task has been started.
C9_CycleFailsBeforeAnyTask ==
    (PhaseEnded /\ HasCycle(Tasks(1))) =>
        /\ chains[1].pc = "ep_catch" /\ chains[1].err = ErrSched
        /\ chains[1].order = <<>>

\* C9, amended: a phase whose task graph contains a cycle never completes
\* and fails with the scheduling error; no task on a cycle or depending on
\* one is ever started, so the error precedes every start when all tasks
\* are such.
C9_CycleFailsScheduling ==
    (inst.exists /\ Len(chains) = 1 /\ HasCycle(Tasks(1))) =>
        /\ chains[1].pc # "ep_ok"
        /\ PhaseEnded => chains[1].err = ErrSched
        /\ \A t \in TaskIdsOf(1) :
            BehindCycle(Tasks(1), t) =>
                /\ TaskStatesOf(inst, 1)[t] \in {Absent, "pending"}
                /\ \A j \in 1..Len(chains[1].order) : chains[1].order[j] # t
        /\ (\A t \in TaskIdsOf(1) : BehindCycle(Tasks(1), t)) => chains[1].order = <<>>

C9_Witness ==
    /\ PhaseEnded
    /\ chains[1].err = ErrSched
    /\ \E t \in TaskIdsOf(1) : OnCycle(Tasks(1), t)
    /\ \E t \in TaskIdsOf(1) : ~BehindCycle(Tasks(1), t)
    /\ chains[1].order # <<>>

----------------------------------------------------------------------------
\* Claims about cancelWorkflow (Spec)

\* C10 as claimed: cancelWorkflow on a running or paused instance sets state
\* failed, records the given reason (the default when omitted) as the error
\* and sets completedAt; on an unknown id it fails with INSTANCE_NOT_FOUND
\* and changes nothing.
C10_CancelRecordsReason ==
    [][last'.op = "cancelWorkflow" =>
        IF last'.id = InstanceId
        THEN inst.state \in {"running", "paused"} =>
                /\ last'.result = "ok"
                /\ inst'.state = "failed"
                /\ inst'.error = (IF last'.arg = NoReason THEN DefaultCancelMessage
                                  ELSE last'.arg)
                /\ inst'.completedAt
        ELSE /\ last'.result = "INSTANCE_NOT_FOUND"
             /\ UNCHANGED <<inst, store, chains>>]_vars

\* C10, amended: the recorded message is the given reason when it is not
\* empty, and the default when the reason is omitted or empty.
C10_CancelRecordsNonEmptyReason ==
    [][last'.op = "cancelWorkflow" =>
        IF last'.id = InstanceId
        THEN inst.state \in {"running", "paused"} =>
                /\ last'.result = "ok"
                /\ inst'.state = "failed"
                /\ inst'.error = (IF last'.arg \in {NoReason, ""} THEN DefaultCancelMessage
                                  ELSE last'.arg)
                /\ inst'.completedAt
        ELSE /\ last'.result = "INSTANCE_NOT_FOUND"
             /\ UNCHANGED <<inst, store, chains>>]_vars

C10_Witness ==
    /\ last.op = "cancelWorkflow" /\ last.id = InstanceId /\ last.arg = "User cancelled"
    /\ inst.state = "failed" /\ inst.error = "User cancelled" /\ inst.completedAt
    /\ \E k \in 1..Len(chains) : chains[k].pc # "done"

----------------------------------------------------------------------------
\* Claims about the public operations under interleaving (Spec)

CancelMessages == {CancelMessage(r) : r \in Reasons}

\* the step is a step of a startWorkflow or resumeWorkflow call in flight
ExecutionStep ==
    \E k \in 1..Len(chains) :
        /\ chains[k].op \in {"startWorkflow", "resumeWorkflow"}
        /\ chains'[k] # chains[k]

\* C11: once cancelWorkflow has marked the instance failed, the later steps
\* of a phase execution, automatic transition or retry that was in flight
\* change neither the state, nor the recorded cancellation error, nor
\* currentPhaseId.
C11_CancelledStaysCancelled ==
    [][(inst.state = "failed" /\ inst.error \in CancelMessages /\ ExecutionStep) =>
            /\ inst'.state = "failed"
            /\ inst'.error = inst.error
            /\ inst'.cur = inst.cur]_vars

\* C12: pauseWorkflow fails with INSTANCE_NOT_FOUND for an unknown id and
\* with INVALID_STATE unless the state is running, changing neither the
\* instance nor the store; on a running instance it succeeds and sets paused.
C12_PauseOnlyRunning ==
    [][last'.op = "pauseWorkflow" =>
        IF last'.id # InstanceId \/ ~inst.exists
        THEN last'.result = "INSTANCE_NOT_FOUND" /\ UNCHANGED <<inst, store>>
        ELSE IF inst.state = "running"
        THEN /\ last'.result = "ok"
             /\ inst' = [inst EXCEPT !.state = "paused"]
             /\ store' = inst'
        ELSE last'.result = "INVALID_STATE" /\ UNCHANGED <<inst, store>>]_vars

C12_Witness ==
    /\ last.op = "pauseWorkflow" /\ last.result = "ok"
    /\ inst.state = "paused" /\ store.state = "paused"

\* C13: resumeWorkflow on a paused instance sets it running and executes its
\* current phase again, and the state observed when the call has returned
\* is running; on an instance that is not paused it fails with INVALID_STATE
\* and executes no phase.
C13_ResumeReturnsRunning ==
    [][/\ (last'.op = "resumeWorkflow" /\ inst.exists /\ last'.id = InstanceId) =>
            IF inst.state = "paused"
            THEN /\ inst'.state = "running"
                 /\ chains'[Len(chains')].op = "resumeWorkflow"
            ELSE /\ last'.result = "INVALID_STATE"
                 /\ UNCHANGED <<inst, store, chains, peCalls>>
       /\ \A k \in 1..Len(chains) :
            (chains[k].op = "resumeWorkflow" /\ chains[k].pc = "resume_saved") =>
                (chains'[k] = chains[k]
                    \/ (chains'[k].pc = "ep_run" /\ chains'[k].phase = inst.cur))
       /\ \A k \in 1..Len(chains) :
            (chains[k].op = "resumeWorkflow" /\ chains[k].pc # "done"
                    /\ chains'[k].pc = "done") =>
                inst'.state = "running"]_vars

\* C17: startWorkflow with an unknown workflow id fails with
\* WORKFLOW_NOT_FOUND, creates no instance, saves nothing and executes no
\* phase.
C17_UnknownWorkflowRejected ==
    [][(last'.op = "startWorkflow" /\ last'.id # WorkflowId) =>
            /\ last'.result = "WORKFLOW_NOT_FOUND"
            /\ UNCHANGED <<inst, store, chains, peCalls>>]_vars

C17_Witness ==
    /\ last.op = "startWorkflow" /\ last.id # WorkflowId
    /\ last.result = "WORKFLOW_NOT_FOUND"
    /\ inst.exists /\ inst.state = "running"
    /\ \E k \in 1..Len(chains) : chains[k].pc = "pe_wait"

\* C18: a startWorkflow or resumeWorkflow call never rejects because a phase
\* failed: the call resolves, and when the phase has failed for good the
\* instance is failed with the error of the phase.
C18_PhaseFailureNotThrown ==
    [][\A k \in 1..Len(chains) :
        (chains[k].op \in {"startWorkflow", "resumeWorkflow"}
                /\ chains[k].pc # "done" /\ chains'[k].pc = "done") =>
            /\ chains'[k].result = "resolved"
            /\ chains[k].pc = "ep_fail" =>
                    /\ chains[k].err \in {ErrSched, ErrRequired, ErrValidation,
                                          ErrInvalidPhase, ErrNoTransition, ErrTransition}
                    /\ inst'.state = "failed"
                    /\ inst'.error = chains[k].err]_vars

C18_Witness ==
    /\ \E k \in 1..Len(chains) :
        /\ chains[k].op = "resumeWorkflow"
        /\ chains[k].pc = "done" /\ chains[k].result = "resolved"
    /\ inst.state = "failed" /\ inst.error = ErrRequired
    /\ last = NoCall

----------------------------------------------------------------------------
\* Claims about transitionToPhase (SpecTransition)

\* the transition the lookup of transitionToPhase finds from phase from to
\* target; used only where there is one
TransitionTo(from, target) ==
    def.transitions[CHOOSE i \in 1..Len(def.transitions) :
        def.transitions[i].from = from /\ def.transitions[i].to = target]

\* C14: a transitionToPhase over a transition that requires approval fails
\* with 'Transition validation failed' when the call supplies no metadata,
\* and succeeds, making the target the current phase, when the call supplies
\* approved = true.
C14_ApprovalDecides ==
    [][/\ (last'.op = "transitionToPhase" /\ last'.result = "pending") =>
            LET c == chains'[Len(chains')]
            IN  TransitionTo(inst.cur, c.target).requiresApproval =>
                    /\ ~c.ctx.present => ~c.canT
                    /\ (c.ctx.present /\ c.ctx.approved) => c.canT
       /\ \A k \in 1..Len(chains) :
            (chains[k].op = "transitionToPhase" /\ chains[k].pc = "tr_validated"
                    /\ chains'[k] # chains[k]) =>
                IF chains[k].canT
                THEN inst'.cur = chains[k].target
                ELSE chains'[k].result = ErrTransition]_vars

\* C15: a transitionToPhase call that fails throws to its caller and no step
\* of it changes the instance: not when it is rejected at once (unknown
\* instance, invalid phase reference, no valid transition), and not when the
\* validator has refused the transition.
C15_FailedTransitionChangesNothing ==
    [][/\ (last'.op = "transitionToPhase" /\ last'.result # "pending") =>
            /\ last'.result \in Rejections
            /\ UNCHANGED <<inst, store, chains>>
       /\ \A k \in 1..Len(chains) :
            (chains[k].pc = "tr_validated" /\ ~chains[k].canT /\ chains'[k] # chains[k]) =>
                /\ UNCHANGED <<inst, store>>
                /\ IF chains[k].inTry
                   THEN chains'[k].pc = "ep_catch" /\ chains'[k].err = ErrTransition
                   ELSE chains'[k].pc = "done" /\ chains'[k].result = ErrTransition
       /\ \A k \in 1..Len(chains) :
            (chains[k].pc = "ep_next" /\ chains'[k].pc = "ep_catch") =>
                /\ UNCHANGED <<inst, store>>
                /\ chains'[k].err \in {ErrInvalidPhase, ErrNoTransition}]_vars

C15_Witness ==
    /\ \E k \in 1..Len(chains) :
        /\ chains[k].op = "transitionToPhase"
        /\ chains[k].pc = "done" /\ chains[k].result = ErrTransition
    /\ inst.state = "running" /\ inst.cur = 1
    /\ inst.phaseStates[1].state = "active"
    /\ last = NoCall

\* C16: a transitionToPhase the validator allows marks the phase that was
\* current completed, makes the target the current phase, and then executes
\* the target phase, whose PhaseInstance becomes active.
C16_TransitionMovesAndExecutes ==
    [][/\ \A k \in 1..Len(chains) :
            (chains[k].pc = "tr_validated" /\ chains[k].canT /\ chains'[k] # chains[k]) =>
                /\ inst'.phaseStates[inst.cur].state = "completed"
                /\ inst'.cur = chains[k].target
                /\ chains'[k].pc = "tr_saved"
       /\ \A k \in 1..Len(chains) :
            (chains[k].pc = "tr_saved" /\ chains'[k] # chains[k]) =>
                /\ inst'.phaseStates[chains[k].target].state = "active"
                /\ chains'[k].pc = "ep_run" /\ chains'[k].phase = chains[k].target
                /\ inst'.cur = inst.cur]_vars

C16_Witness ==
    /\ \E k \in 1..Len(chains) :
        /\ chains[k].op = "transitionToPhase"
        /\ chains[k].pc = "ep_run" /\ chains[k].phase = 2
    /\ inst.cur = 2
    /\ inst.phaseStates[1].state = "completed"
    /\ inst.phaseStates[2].state = "active"

----------------------------------------------------------------------------
\* Claims about automatic approval (SpecRun)

\* C19: a workflow started with metadata autoApprove = true in which every
\* task succeeds passes every automatic transition, also those that require
\* approval or carry a condition such as 'Design approved', and ends
\* completed at the last phase.
C19_AutoApproveCompletes ==
    (RunDone /\ initialData.present /\ initialData.autoApprove /\ EveryTaskSucceeds) =>
        /\ inst.state = "completed"
        /\ inst.cur = def.phases[Len(def.phases)]

----------------------------------------------------------------------------
\* Claims about validatePhaseCompletion (SpecValidate)

RequiredTaskIds(p) ==
    {Tasks(p)[i].id : i \in {i \in 1..Len(Tasks(p)) : Tasks(p)[i].required}}

\* C20: validatePhaseCompletion returns true exactly when every required
\* task of the phase has a TaskInstance in state completed; a required task
\* that is missing, pending, running, failed or skipped makes it false, and
\* the result is the same for any other states of the non-required tasks.
C20_ValidatesRequiredTasks ==
    last.op = "validatePhaseCompletion" =>
        LET ts == inst.phaseStates[1].taskStates
        IN  /\ last.result \in {"true", "false"}
            /\ last.result = "true" <=> \A t \in RequiredTaskIds(1) : ts[t] = "completed"
            /\ last.result = "false" <=>
                    \E t \in RequiredTaskIds(1) :
                        ts[t] \in {Absent, "pending", "running", "failed", "skipped"}
            /\ \A other \in [1..MaxTasks -> TaskInstanceStates] :
                    (\A t \in RequiredTaskIds(1) : other[t] = ts[t]) =>
                        (validatePhaseCompletion(1, other) <=> last.result = "true")

C20_Witness ==
    /\ last.op = "validatePhaseCompletion" /\ last.result = "true"
    /\ \E t \in RequiredTaskIds(1) : inst.phaseStates[1].taskStates[t] = "completed"
    /\ \E t \in TaskIdsOf(1) \ RequiredTaskIds(1) :
            inst.phaseStates[1].taskStates[t] = "failed"

----------------------------------------------------------------------------
\* Claims about rollbackPhase (SpecRollback)

\* C21: rollbackPhase sets the PhaseInstance rolled_back and resets exactly
\* the completed TaskInstances to pending with result and error cleared; a
\* TaskInstance in any other state, every retry counter, and the state and
\* current phase of the workflow instance stay as they were.
C21_RollbackResetsCompleted ==
    [][last'.op = "rollbackPhase" =>
        LET old == inst.phaseStates[inst.cur]
            new == inst'.phaseStates[inst.cur]
        IN  /\ new.state = "rolled_back"
            /\ new.retryCount = old.retryCount
            /\ \A t \in 1..MaxTasks :
                    IF old.taskStates[t].state = "completed"
                    THEN new.taskStates[t] =
                            [state |-> "pending", retryCount |-> old.taskStates[t].retryCount,
                             result |-> Undefined, error |-> Undefined]
                    ELSE new.taskStates[t] = old.taskStates[t]
            /\ inst'.state = inst.state
            /\ inst'.cur = inst.cur
            /\ inst' = [inst EXCEPT !.phaseStates[inst.cur] = new]]_vars

C21_Witness ==
    /\ last.op = "rollbackPhase"
    /\ inst.phaseStates[1].state = "rolled_back"
    /\ store.phaseStates[1].taskStates[1].state = "completed"
    /\ store.phaseStates[1].taskStates[1].error # Undefined
    /\ inst.phaseStates[1].taskStates[1] =
            [state |-> "pending", retryCount |-> MaxRetriesCfg,
             result |-> Undefined, error |-> Undefined]
    /\ inst.phaseStates[1].taskStates[2].state = "failed"
    /\ inst.phaseStates[1].taskStates[2].error = "error"
    /\ inst.phaseStates[1].taskStates[3].state = "running"
    /\ inst.phaseStates[1].taskStates[3].result = "data"

----------------------------------------------------------------------------
\* Claims about the persistence store (SpecPersistence)

\* the object stored under the instance id; used only where there is one
Stored(h, i) == Deref(h, i, h.entry)
\* the object the last load or list returned; used only where there is one
Returned(h, i) == Deref(h, i, h.returned[1])

----------------------------------------------------------------------------
\* Claims about TaskExecutor (SpecTask)

\* the approval task is approved without a decision: metadata.autoApprove
\* is true or the task id is among metadata.approvedTasks
AutoApproved ==
    /\ initialData.present
    /\ \/ initialData.autoApprove = JsTrue
       \/ initialData.approvedTasks.present /\ TheTask.id \in initialData.approvedTasks.ids

\* C24: an approval task that is not auto-approved is rejected exactly when
\* approvalDecisions[taskId] is false; without a decision map, without an
\* entry and with any other value it is approved; and an auto-approved task
\* is approved whatever approvalDecisions says.
C24_OnlyFalseRejects ==
    last.op = "executeApprovalTask" =>
        /\ last.result.status \in {"'approved'", "'rejected'"}
        /\ AutoApproved => last.result.status = "'approved'"
        /\ ~AutoApproved =>
            (last.result.status = "'rejected'" <=>
                /\ initialData.present /\ initialData.approvalDecisions.present
                /\ TheTask.id \in DOMAIN initialData.approvalDecisions.of
                /\ initialData.approvalDecisions.of[TheTask.id] = JsFalse)

C24_Witness ==
    /\ last.op = "executeApprovalTask"
    /\ last.result.status = "'approved'"
    /\ ~AutoApproved
    /\ initialData.approvalDecisions.present
    /\ TheTask.id = 1
    /\ DOMAIN initialData.approvalDecisions.of = {1, 2}
    /\ initialData.approvalDecisions.of[1] = "'false'"
    /\ initialData.approvalDecisions.of[2] = JsFalse

\* C25: validateTaskResult for a manual task returns the boolean true when
\* the result has status success and a non-empty completedBy, and the
\* boolean false otherwise.
C25_ManualResultIsBoolean ==
    (last.op = "validateTaskResult" /\ TheTask.type = "manual") =>
        last.result =
            (IF /\ TheTaskInstance.result.present
                /\ TheTaskInstance.result.status = "'success'"
                /\ TheTaskInstance.result.completedBy \notin {JsUndefined, "''"}
             THEN JsTrue ELSE JsFalse)

----------------------------------------------------------------------------
\* Claims about the PhaseInstances of an instance (Spec)

\* C26: startWorkflow creates one PhaseInstance per phase of the definition,
\* each pending with retry counter 0, and from then on every step leaves the
\* keys of phaseStates the phase ids of the definition.
C26_PhaseInstancesFixed ==
    [][/\ (~inst.exists /\ inst'.exists) =>
            /\ last'.op = "startWorkflow"
            /\ DOMAIN inst'.phaseStates = PhaseIds
            /\ \A p \in PhaseIds :
                    /\ inst'.phaseStates[p].state = "pending"
                    /\ inst'.phaseStates[p].retryCount = 0
       /\ inst.exists =>
            /\ inst'.exists
            /\ DOMAIN inst'.phaseStates = DOMAIN inst.phaseStates
            /\ DOMAIN inst'.phaseStates = PhaseIds]_vars

C26_Witness ==
    /\ inst.exists /\ inst.state = "completed"
    /\ PhaseIds = 1..RacePhases
    /\ DOMAIN inst.phaseStates = PhaseIds
    /\ inst.cur = RacePhases
    /\ inst.phaseStates[1].retryCount = 1
    /\ \A p \in PhaseIds : inst.phaseStates[p].state = "completed"

\* (SpecRun)
\* C27: the retry counter of a PhaseInstance never decreases and never
\* exceeds the configured maxRetries, for every maxRetries >= 0, also for
\* maxRetries = 0 with retries enabled.
C27_RetryCountBounded ==
    [][inst'.exists =>
        \A p \in DOMAIN inst'.phaseStates :
            /\ inst'.phaseStates[p].retryCount <= config.maxRetries
            /\ inst.exists =>
                    inst'.phaseStates[p].retryCount >= inst.phaseStates[p].retryCount]_vars

----------------------------------------------------------------------------
\* Claims about the automatic transition (SpecRun, SpecBranch)

TransitionErrors == {ErrTransition, ErrNoTransition, ErrInvalidPhase}

\* C28: a refused automatic transition is not retried: the step that handles
\* the refusal leaves the completed phase completed and its retry counter as
\* it was, and does not lead to another execution of the phase.
C28_RefusedTransitionNotRetried ==
    [][\A k \in 1..Len(chains) :
        (chains[k].pc = "ep_catch" /\ chains[k].err \in TransitionErrors
                /\ chains'[k] # chains[k]) =>
            LET p == chains[k].phase
            IN  /\ inst'.phaseStates[p].state = "completed"
                /\ inst'.phaseStates[p].retryCount = inst.phaseStates[p].retryCount
                /\ chains'[k].pc # "ep_retry"]_vars

\* C29: the automatic transition after a successful phase is made only from
\* a phase that declares exactly one next phase; after a phase that
\* declares several the call returns with the instance running at that
\* phase, for a client to choose by transitionToPhase.
C29_AutoTransitionOnlySingleNext ==
    [][\A k \in 1..Len(chains) :
        (chains[k].pc = "ep_next" /\ chains'[k] # chains[k]) =>
            LET p == chains[k].phase
            IN  /\ chains'[k].pc = "tr_validated" => Len(def.nextPhases[p]) = 1
                /\ Len(def.nextPhases[p]) > 1 =>
                        /\ chains'[k].pc = "done"
                        /\ inst'.state = "running" /\ inst'.cur = p]_vars

----------------------------------------------------------------------------
\* Claims about the order of the writes of a transition (SpecTransition)

\* C30: the current phase of the instance changes only after the completed
\* state of the outgoing phase has been written to the store: a step that
\* moves the current phase starts from a stored snapshot that shows the
\* outgoing phase completed.
C30_StoredCompletedBeforeMove ==
    [][(inst.exists /\ inst'.cur # inst.cur) =>
            /\ store.exists
            /\ store.phaseStates[inst.cur].state = "completed"]_vars


----------------------------------------------------------------------------
\* Claims about the frontier of PhaseExecutor.executePhase (SpecPhase)

\* the state the TaskInstance of a frontier task has for what is known of
\* its execution
RecordedAs(o) ==
    IF o = "pending" THEN "running" ELSE IF o = "ok" THEN "completed" ELSE "failed"

\* C31: the frontier is a collect-all barrier: while executePhase waits,
\* every task of the frontier is running until it settles, whatever its
\* siblings did, and its outcome is recorded in its TaskInstance when it
\* settles; and as long as a task of the frontier has not settled the
\* frontier stays as it is and no other task is started.
C31_FrontierBarrier ==
    [][\A k \in 1..Len(chains) :
        LET c == chains[k]
            n == chains'[k]
            p == n.phase
        IN  /\ n.pc = "pe_wait" =>
                \A j \in 1..Len(n.frontier) :
                    TaskStatesOf(inst', p)[Tasks(p)[n.frontier[j]].id]
                        = RecordedAs(n.settled[j])
            /\ (c.pc = "pe_wait" /\ \E j \in 1..Len(c.frontier) : c.settled[j] = "pending") =>
                /\ n.pc = "pe_wait" /\ n.frontier = c.frontier /\ n.order = c.order
                /\ \A j \in 1..Len(c.frontier) :
                        c.settled[j] # "pending" => n.settled[j] = c.settled[j]
                /\ \A t \in TaskIdsOf(p) :
                        TaskStatesOf(inst', p)[t] = "running"
                            => TaskStatesOf(inst, p)[t] = "running"]_vars

\* the tasks 1 and 2 made the first frontier; the optional task 1 failed and
\* task 2 succeeded, both were recorded, and task 3, which depends on both,
\* was started after them
C31_Witness ==
    /\ Len(chains) = 1 /\ chains[1].pc = "pe_wait"
    /\ chains[1].order = <<1, 2, 3>> /\ chains[1].frontier = <<3>>
    /\ outcomes[1][1] = {"fail"} /\ outcomes[1][2] = {"ok"}
    /\ TaskStatesOf(inst, 1)[1] = "skipped"
    /\ TaskStatesOf(inst, 1)[2] = "completed"
    /\ TaskStatesOf(inst, 1)[3] = "running"

----------------------------------------------------------------------------
\* Claims about the stored snapshot (Spec, persistence enabled)

\* no call on the instance is in flight
Quiescent == \A k \in 1..Len(chains) : chains[k].pc = "done"

\* C32: with persistence enabled, whenever no operation on the instance is
\* in flight, the stored snapshot equals the instance in machine state,
\* current phase, error and the state and retry counter of every
\* PhaseInstance and TaskInstance.
C32_SnapshotCurrentWhenQuiescent ==
    (inst.exists /\ config.enablePersistence /\ Quiescent) =>
        /\ store.exists
        /\ store.state = inst.state
        /\ store.cur = inst.cur
        /\ store.error = inst.error
        /\ DOMAIN store.phaseStates = DOMAIN inst.phaseStates
        /\ \A p \in DOMAIN inst.phaseStates :
            /\ store.phaseStates[p].state = inst.phaseStates[p].state
            /\ store.phaseStates[p].retryCount = inst.phaseStates[p].retryCount
            /\ store.phaseStates[p].taskStates = inst.phaseStates[p].taskStates

\* a phase was retried after a failed task, the workflow was paused and
\* resumed while it ran, and the calls have returned
C32_Witness ==
    /\ inst.exists /\ config.enablePersistence /\ Quiescent
    /\ Len(chains) = 2 /\ chains[2].op = "resumeWorkflow"
    /\ inst.state = "completed"
    /\ inst.phaseStates[1].retryCount = 1
    /\ TaskStatesOf(inst, 1)[1] = "completed"
    /\ store = inst

----------------------------------------------------------------------------
\* Claims about the lifecycles of phases and tasks (SpecRun)

\* the documented changes of a PhaseInstance's state
PhaseLifecycle ==
    {<<"pending", "active">>, <<"active", "completed">>, <<"active", "failed">>,
     <<"failed", "rolled_back">>, <<"pending", "skipped">>}

\* C33: every change of a PhaseInstance's state is a step of the phase
\* lifecycle: a completed phase is never marked failed or active again, and
\* a failed phase does not return to active.
C33_PhaseLifecycle ==
    [][inst.exists =>
        \A p \in DOMAIN inst.phaseStates :
            inst'.phaseStates[p].state # inst.phaseStates[p].state =>
                <<inst.phaseStates[p].state, inst'.phaseStates[p].state>>
                    \in PhaseLifecycle]_vars

\* the documented changes of a TaskInstance's state; a TaskInstance is
\* created pending, and may be started in the step that creates it
TaskLifecycle ==
    {<<Absent, "pending">>, <<Absent, "running">>, <<"pending", "running">>,
     <<"running", "completed">>, <<"running", "failed">>, <<"failed", "skipped">>}

\* C34: every change of a TaskInstance's state is a step of the task
\* lifecycle; across phase retries a task that is completed or skipped is
\* not reset and not executed again.
C34_TaskLifecycle ==
    [][inst.exists =>
        \A p \in DOMAIN inst.phaseStates : \A t \in 1..MaxTasks :
            TaskStatesOf(inst', p)[t] # TaskStatesOf(inst, p)[t] =>
                <<TaskStatesOf(inst, p)[t], TaskStatesOf(inst', p)[t]>>
                    \in TaskLifecycle]_vars

----------------------------------------------------------------------------
\* Claims about calls made while a phase execution is in flight (Spec)

ActivePhases == {p \in DOMAIN inst.phaseStates : inst.phaseStates[p].state = "active"}

\* C35: at most one PhaseInstance is active, and an active PhaseInstance is
\* the one of the current phase, also when transitionToPhase or
\* resumeWorkflow is called while a phase execution is in flight.
C35_OnlyCurrentPhaseActive ==
    inst.exists =>
        /\ Cardinality(ActivePhases) <= 1
        /\ ActivePhases \subseteq {inst.cur}

\* C36: while the instance is paused its execution is suspended: no step
\* changes the current phase, makes a PhaseInstance active or completed,
\* starts a task or performs a retry, until resumeWorkflow is called; also
\* when pauseWorkflow was called while a phase execution or a retry wait
\* was in flight.
C36_PausedIsSuspended ==
    [][(inst.state = "paused" /\ inst'.state = "paused") =>
        /\ inst'.cur = inst.cur
        /\ peCalls' = peCalls
        /\ \A p \in DOMAIN inst.phaseStates :
            /\ inst'.phaseStates[p].state \in {"active", "completed"}
                    => inst'.phaseStates[p].state = inst.phaseStates[p].state
            /\ inst'.phaseStates[p].retryCount = inst.phaseStates[p].retryCount
            /\ \A t \in 1..MaxTasks :
                    TaskStatesOf(inst', p)[t] = "running"
                        => TaskStatesOf(inst, p)[t] = "running"]_vars

\* C37: a transitionToPhase call working on an instance whose machine state
\* is completed or failed does not change the current phase, makes no
\* PhaseInstance active and executes no phase, also when the definition has
\* the transition asked for and the validator accepts it.
C37_NoTransitionWhenTerminal ==
    [][\A k \in 1..Len(chains) :
        (/\ chains[k].op = "transitionToPhase"
         /\ chains'[k] # chains[k]
         /\ inst.state \in {"completed", "failed"}) =>
            /\ inst'.cur = inst.cur
            /\ peCalls' = peCalls
            /\ \A p \in DOMAIN inst.phaseStates :
                    inst'.phaseStates[p].state = "active"
                        => inst.phaseStates[p].state = "active"]_vars

----------------------------------------------------------------------------
\* Claims about approval tasks in a phase (SpecApproval)

\* the approval task at position i of phase p is required and is rejected by
\* the metadata of the instance: the decision for it is false and nothing
\* approves it automatically
RejectedRequiredApproval(p, i) ==
    LET task == Tasks(p)[i]
        md == TaskMetadataOf(inst.metadata)
    IN  /\ task.type = "approval" /\ task.required
        /\ DecisionOf(md, task.id) = JsFalse
        /\ md.autoApprove # JsTrue
        /\ ~(md.approvedTasks.present /\ task.id \in md.approvedTasks.ids)

\* C38: a phase with a required approval task whose decision is a rejection
\* does not complete successfully: the task does not end completed, the
\* phase is not marked completed and the workflow does not advance to the
\* next phase.
C38_RejectedApprovalBlocksPhase ==
    inst.exists =>
        \A p \in PhaseIds : \A i \in 1..Len(Tasks(p)) :
            RejectedRequiredApproval(p, i) =>
                /\ TaskStatesOf(inst, p)[Tasks(p)[i].id] # "completed"
                /\ inst.phaseStates[p].state # "completed"
                /\ inst.cur <= p

----------------------------------------------------------------------------
\* Claims about the completion time (Spec)

\* C39: in every state of a workflow instance, completedAt is set if and
\* only if the machine state is completed or failed.
C39_CompletedAtIffTerminal ==
    inst.exists => (inst.completedAt <=> inst.state \in {"completed", "failed"})

\* the workflow has failed with the error of its phase, after a retry, and
\* carries its completion time
C39_Witness ==
    /\ inst.exists /\ Quiescent
    /\ inst.state = "failed" /\ inst.error = ErrRequired
    /\ inst.phaseStates[1].retryCount = 1
    /\ inst.completedAt

----------------------------------------------------------------------------
\* Claims about the termination of PhaseExecutor.executePhase (SpecSchedule)

\* the tasks the scheduling loop counts as resolved
Resolved(c) == c.executed \cup c.failed

\* the step is the end of a scheduling round of chain k: the frontier has
\* settled and the loop goes round
RoundEnds(k) ==
    /\ chains[k].pc = "pe_wait"
    /\ \A j \in 1..Len(chains[k].frontier) : chains[k].settled[j] # "pending"
    /\ chains'[k] # chains[k]

\* the call has ended with success or an error, or waits for a frontier that
\* is not empty and holds unresolved tasks only
EndedOrWaiting(p, n) ==
    \/ n.pc \in {"ep_ok", "ep_catch"}
    \/ /\ n.pc = "pe_wait"
       /\ n.frontier # <<>>
       /\ \A j \in 1..Len(n.frontier) : Tasks(p)[n.frontier[j]].id \notin Resolved(n)

\* every scheduling round resolves at least one more task, and ends the call
\* or starts a frontier of unresolved tasks
RoundProgress ==
    \A k \in 1..Len(chains) :
        /\ RoundEnds(k) =>
                /\ Resolved(chains[k]) \subseteq Resolved(chains'[k])
                /\ Resolved(chains[k]) # Resolved(chains'[k])
                /\ EndedOrWaiting(chains[k].phase, chains'[k])
        /\ (chains[k].pc = "ep_run" /\ chains'[k] # chains[k]) =>
                EndedOrWaiting(chains[k].phase, chains'[k])

\* C40: executePhase terminates for every task list and dependency relation
\* (acyclic, cyclic, with dependencies on unknown ids, with duplicate ids),
\* provided every started task settles: each scheduling round resolves at
\* least one more task or ends the call, and the call ends with success or
\* an error.
C40_ExecutePhaseTerminates ==
    /\ [][RoundProgress]_vars
    /\ <>PhaseEnded

\* the call has ended after two rounds for a list in which the id 1 occurs
\* twice and the third task depends on it
C40_Witness ==
    /\ PhaseEnded
    /\ Len(Tasks(1)) = 3
    /\ Tasks(1)[1].id = 1 /\ Tasks(1)[2].id = 1 /\ Tasks(1)[3].id = 2
    /\ Tasks(1)[3].deps = {1}
    /\ Tasks(1)[1].deps = {} /\ Tasks(1)[2].deps = {}
    /\ chains[1].order = <<1, 1, 2>>
    /\ chains[1].pc = "ep_ok"
====
